---- MODULE Spec2Model ----
(***************************************************************************)
(* Real-time session and broadcast coordinator of the animochat chat       *)
(* server: admission (onConnection, handleUserConnected), frame handling   *)
(* (the message listener, handleSendMessage, handleDisconnectPacket),      *)
(* disconnect handling (handleDisconnect), the in-process presence         *)
(* registry (userStore), the broadcaster and the room store.               *)
(*                                                                         *)
(* Handlers are async functions.  Every `await` of a store call is a       *)
(* suspension point: one action of the model executes the awaited store    *)
(* call together with the synchronous code that follows it, up to the next *)
(* await.  Actions of different handlers interleave freely.                *)
(***************************************************************************)
EXTENDS Integers, Sequences, FiniteSets, TLC

\* ------------------------------------------------------------------ bounds
\* client frames and administrative requests served in one run
MaxRequests == 1
\* sequential sends of one run of the message store
MaxSends == 102
\* the capacity administrators give a group room
GroupCap == 3
\* frames arriving in one run of the message listener
MaxFrames == 7
\* frames of that run whose handling has begun and not ended
MaxInFlight == 2
\* music frames served in one run of the music handlers
MaxMusicFrames == 3
\* songs a queue holds in that run
MaxQueue == 2
\* reaction, delete and message frames served in one run of the history
MaxHistoryFrames == 3
\* change_theme frames served in one run of the theme handler
MaxThemeFrames == 3

\* ------------------------------------------------------- program constants
DEFAULT_MAX_PARTICIPANTS == 2
BAD_REQUEST_CODE == 4000
BANNED_ROOM_CODE == 3010
\* the listener's ws.close(4000, "Banned")
BANNED_FRAME_CODE == 4000
ROOM_FULL_CODE == 3020
MAX_TEXT_LENGTH == 700
LTRIM_STOP == 99
RATE_LIMIT_POINTS == 5

\* --------------------------------------------------------------- universes
RoomIds == {"r"}
Users == {"u1", "u2", "u3"}
Admins == {"u1"}
Conns == {"c1", "c2", "c3"}
\* the user ids each socket of a run may present
Clients == {<<"c1", "u1">>, <<"c2", "u2">>, <<"c3", "u1">>, <<"c3", "u3">>}
\* the address a user's requests come from (u1 and u2 share one address)
IpOf(u) == IF u = "u3" THEN "ip2" ELSE "ip1"
Ips == {IpOf(u) : u \in Users}
\* the users and addresses the administrators ban
BannableUsers == {"u2"}
BannableIps == {"ip2"}
\* the sockets whose transport fails ('error' is emitted before 'close')
ErrorProne == {"c1"}
\* the sockets whose clients send frames
Senders == {"c1", "c2"}
Events == {"error", "close"}
Backends == {"redis", "supabase"}
NoIp == "none"
NoCode == 0
NoSocket == "nobody"
NoNick == "undefined"
NoRoom == [exists |-> FALSE]
NoBody == [len |-> 0, nick |-> NoNick]
\* the frames clients send: a long text message without senderNickname, an
\* image message with an empty senderNickname, and the disconnect intent
Frames ==
    { [type |-> "message", id |-> "m1", mtype |-> "text", len |-> MAX_TEXT_LENGTH + 1,
       nick |-> NoNick],
      [type |-> "message", id |-> "m1", mtype |-> "image", len |-> MAX_TEXT_LENGTH + 1,
       nick |-> ""],
      [type |-> "disconnect", id |-> "", mtype |-> "", len |-> 0, nick |-> NoNick] }
NoFrame == [type |-> "none", id |-> "", mtype |-> "", len |-> 0, nick |-> NoNick]
\* the frames of a run of the message listener: the text message m1, an
\* edit_message for m1 (len is the length of new_content) and a packet of a
\* type without handler
TextFrame == [type |-> "message", id |-> "m1", mtype |-> "text",
              len |-> MAX_TEXT_LENGTH + 1, nick |-> NoNick]
EditFrame == [type |-> "edit_message", id |-> "m1", mtype |-> "", len |-> 5,
              nick |-> NoNick]
CustomFrame == [type |-> "custom", id |-> "", mtype |-> "", len |-> 0,
                nick |-> NoNick]
ListenerFrames == {TextFrame, EditFrame, CustomFrame}
\* the sockets that send them: two sockets of the same user
FrameSenders == {"c1", "c3"}
\* the {mode, theme} of change_theme frames, and the columns of a new row
Themes == {[mode |-> "dark", theme |-> "t1"], [mode |-> "light", theme |-> "t2"]}
NoTheme == [mode |-> "light", theme |-> "null"]
NoThemeTask == [pc |-> "none", content |-> NoTheme]
\* the emojis of reaction frames; null asks for the removal
Emojis == {"A", "B"}
NoEmoji == "null"
NoContent == "null"
\* the songs clients name, and the keys of a room's music_info
Songs == {"A", "B"}
NoSong == "none"
MusicKeys == {"currentSong", "progress", "state", "queue", "skipVotes",
              "finishedUsers", "playTime"}
\* Date.now() when a run starts, in milliseconds
StartTime == 2000

VARIABLES
    backend,       \* which repository implementation is configured
    room,          \* store: rooms table, room id -> row or NoRoom
    participants,  \* store: room id -> set of user ids with a participant row
    ghosts,        \* store: room id -> set of user ids with is_ghost
    bannedUsers,   \* store: set of <<room, user>>
    bannedIps,     \* store: set of ip addresses
    messages,      \* store: room id -> the stored messages (redis: newest
                   \* first, as LPUSH leaves them; supabase: insertion order)
    rooms,         \* userStore.rooms: room id -> user id -> sockets
    socketToInfo,  \* userStore.socketToInfo: the sockets that have an entry
    sock,          \* the websockets and the admission task of each, with
                   \* the handler's locals (isGhost, whether userIds.size
                   \* reached maxParticipants) and what the attempt did so far
                   \* (the user's socket count before addUserToRoom, whether
                   \* its createRoom inserted the row)
    ftask,         \* the frame being handled for each socket
    dtask,         \* the handleDisconnect tasks started by close and error
    adminTask,     \* the administrative deleteRoom request in flight, per room
    requests,      \* frames and administrative requests served so far
    sends,         \* message-store run: the sends started so far
    storeTask,     \* message-store run: position inside addMessage
    pipe,          \* listener run: per socket, the frames being handled, in
                   \* arrival order, each with its listener's position
    limiter,       \* listener run: rateLimiter, user id -> points consumed
                   \* in the current window
    admitted,      \* listener run: user id -> frames the limiter let through
                   \* in the current window
    arrival,       \* listener run: the socket of the frame that arrived last
    music,         \* store: room id -> rooms.music_info (null, or the keys it
                   \* has and their values)
    mtask,         \* music run: the music frame being handled for each
                   \* socket, with what its handler read and is writing
    now,           \* Date.now(), in milliseconds
    htask,         \* history run: the reaction or delete being applied for
                   \* each socket, with what the repository read and writes
    unhandled,     \* history run: the rejected handler promises nobody
                   \* awaits, as <<socket, what was being handled>>
    theme,         \* store: room id -> the theme and mode columns of the row
    ttask,         \* theme run: the change_theme frame whose setTheme each
                   \* socket's handler awaits
    sent           \* the packets written by the last step, in order

vars == <<backend, room, participants, ghosts, bannedUsers, bannedIps, messages,
          rooms, socketToInfo, sock, ftask, dtask, adminTask, requests, sends,
          storeTask, pipe, limiter, admitted, arrival, music, mtask, now, htask,
          unhandled, theme, ttask, sent>>

storeVars == <<room, participants, ghosts, bannedUsers, bannedIps, messages>>
registryVars == <<rooms, socketToInfo>>
listenerRunVars == <<pipe, limiter, admitted, arrival>>
\* the variables of the runs that exercise one component alone
musicRunVars == <<music, mtask, now>>
historyRunVars == <<htask, unhandled>>
themeRunVars == <<theme, ttask>>
storeRunVars == <<backend, sends, storeTask, listenerRunVars, musicRunVars,
                  historyRunVars, themeRunVars>>

Min(a, b) == IF a < b THEN a ELSE b

RECURSIVE Reverse(_)
Reverse(s) == IF s = <<>> THEN <<>> ELSE Append(Reverse(Tail(s)), Head(s))

\* ------------------------------------------------------------ userStore.ts
\* rooms: roomId -> (userId -> sockets).  A user with no sockets has no entry
\* in the room's map, and a room with no users has no entry in rooms; both
\* are the empty set here.  The order of Map entries and of a user's socket
\* array only fixes the order in which one broadcast writes to its targets.
NoUsers == [u \in Users |-> {}]

addUserToRoom(reg, ws, userId) == [reg EXCEPT ![userId] = @ \cup {ws}]

\* the room's user map after removeUser(ws)
removeUser(reg, info, ws, userId) ==
    IF ws \notin info THEN reg
    ELSE IF reg[userId] = {} THEN reg
    ELSE [reg EXCEPT ![userId] = @ \ {ws}]

\* socketToInfo after removeUser(ws): the entry survives the early return
removeUserInfo(reg, info, ws, userId) ==
    IF ws \notin info THEN info
    ELSE IF reg[userId] = {} THEN info
    ELSE info \ {ws}

getOnlineUsersInRoom(reg) == {u \in Users : reg[u] # {}}

getSocketsInRoom(reg) == UNION {reg[u] : u \in Users}

SocketCount(reg, u) == Cardinality(reg[u])

\* ------------------------------------------------------------ broadcast.ts
\* the sockets a broadcast writes to
broadcastToRoom(reg, excludeWs) ==
    {s \in getSocketsInRoom(reg) : s # excludeWs /\ sock[s].state = "OPEN"}

\* the packet a broadcast writes, once per target
Packets(targets, type, about, body) ==
    IF targets = {} THEN <<>>
    ELSE <<[to |-> targets, type |-> type, about |-> about, body |-> body]>>

\* ----------------------------------------------------- repository (reads)
roomExists(r) == room[r].exists

\* getRoomInfo: the row, or {} when the read returns no data; 0 stands for
\* an undefined max_participants
getRoomInfo(r, ok) ==
    IF ok /\ room[r].exists
    THEN [max_participants |-> room[r].max]
    ELSE [max_participants |-> 0]

\* info.max_participants ?? 2
maxParticipantsOf(info) ==
    IF info.max_participants = 0 THEN DEFAULT_MAX_PARTICIPANTS
    ELSE info.max_participants

repoIsUserBanned(r, u) == <<r, u>> \in bannedUsers
repoIsIpBanned(r, ip) == ip \in bannedIps
isGhostMode(r, u) == u \in ghosts[r]
containsParticipant(r, u) == u \in participants[r]

\* getNickname(chatId, userId): the participant's generated name, or null
getNickname(r, u) == IF u \in participants[r] THEN "friendly" ELSE NoNick

\* roomHandler.isUserBanned, reading only the user-ban set
isUserBanned_userOnly(chatId, userId, ip) == repoIsUserBanned(chatId, userId)

\* roomHandler.isUserBanned
isUserBanned(chatId, userId, ip) ==
    \/ repoIsUserBanned(chatId, userId)
    \/ (ip # NoIp /\ repoIsIpBanned(chatId, ip))

\* ------------------------------------------------------ repository (writes)
\* createRoom is an insert; on an existing id the insert is refused and the
\* error is logged and swallowed
createRoom(rm, r, maxParticipants) ==
    IF rm[r].exists THEN rm
    ELSE [rm EXCEPT ![r] = [exists |-> TRUE, max |-> maxParticipants,
                            closed |-> FALSE]]

\* roomController.createRoom: a group room under a fresh id
GroupRoom == createRoom([r \in RoomIds |-> NoRoom], "r", GroupCap)["r"]

markClosed(rm, r) ==
    IF rm[r].exists THEN [rm EXCEPT ![r].closed = TRUE] ELSE rm

\* deleteRoom removes the row; participants, ghost flags, user bans and
\* messages of the room go with it (ON DELETE CASCADE)
DeleteRoomStore(r) ==
    /\ room' = [room EXCEPT ![r] = NoRoom]
    /\ participants' = [participants EXCEPT ![r] = {}]
    /\ ghosts' = [ghosts EXCEPT ![r] = {}]
    /\ bannedUsers' = {b \in bannedUsers : b[1] # r}
    /\ messages' = [messages EXCEPT ![r] = <<>>]
    /\ UNCHANGED bannedIps

\* addParticipant is an upsert of (room, user, nickname, is_ghost: false);
\* it is refused (and the error swallowed) when the room row is gone
addParticipant(parts, r, u) ==
    IF room[r].exists THEN [parts EXCEPT ![r] = @ \cup {u}] ELSE parts

\* redis addMessage: LPUSH, then LTRIM 0 99
lpush(list, m) == <<m>> \o list
ltrim(list, stop) == SubSeq(list, 1, Min(Len(list), stop + 1))

\* supabase addMessage: an insert into messages; refused (and the error
\* swallowed) when the room row is gone or the id is already taken
supabaseAddMessage(rows, r, m) ==
    IF room[r].exists /\ \A i \in 1..Len(rows) : rows[i].id # m.id
    THEN Append(rows, m)
    ELSE rows

\* getMessages(chatId, 0, -1): the stored messages, oldest first (redis
\* reverses its list; supabase orders by created_at, newest first, and
\* reverses: the limit of 1000 rows it applies is beyond the sends of a run)
getMessages(r) ==
    IF backend = "redis" THEN Reverse(messages[r]) ELSE messages[r]

\* getMessageCount: LLEN, or the count of the room's rows
getMessageCount(r) == Len(messages[r])

\* ws.close(code): only an open socket starts the closing handshake
wsClose(s, code) ==
    IF s.state = "OPEN" THEN [s EXCEPT !.state = "CLOSING", !.code = code] ELSE s

\* --------------------------------------------------------- music_info
\* rooms.music_info is null or a JSON object; a key it lacks reads as
\* undefined.  `val` holds the values of the keys in `keys` and the blank
\* value for every other key.  progress is in seconds, playTime in
\* milliseconds.
BlankMusic == [currentSong |-> NoSong, progress |-> 0, state |-> "paused",
               queue |-> <<>>, skipVotes |-> <<>>, finishedUsers |-> {},
               playTime |-> 0]
NoMusic == [exists |-> FALSE, keys |-> {}, val |-> BlankMusic]

\* an object literal handed to updateMusicInfo: the keys it gives a value
\* (`set`), the keys it gives undefined (`unset`), and the values
NoPayload == [set |-> {}, unset |-> {}, val |-> BlankMusic]

\* { ...current }: the keys current has, with their values
spread(current) == [set |-> current.keys, unset |-> {}, val |-> current.val]

\* getMusicInfo: data?.music_info || null
getMusicInfo(r) == IF room[r].exists THEN music[r] ELSE NoMusic

\* updateMusicInfo -> rpc update_music_info(room_id, new_info): the keys of
\* new_info replace those of the stored object (an empty one when the column
\* is null), a key given undefined leaves the object without it, every
\* other key stays; no row, no update
updateMusicInfo(info, r, p) ==
    IF ~room[r].exists THEN info
    ELSE [exists |-> TRUE,
          keys |-> (info.keys \ p.unset) \cup p.set,
          val |-> [k \in MusicKeys |->
                      IF k \in p.set THEN p.val[k]
                      ELSE IF k \in p.unset THEN BlankMusic[k]
                      ELSE info.val[k]]]

\* no music frame in hand; otherwise the handler's position, the song of
\* the frame, the music_info and the online users the handler read, and the
\* object it hands to updateMusicInfo
NoMusicTask == [pc |-> "none", song |-> NoSong, current |-> NoMusic, online |-> 0,
                count |-> 0, payload |-> NoPayload]

\* a stored text message, and no repository call on the history in hand;
\* otherwise the call, its arguments, and what its read of the history
\* found: the list, the index and the message it writes back
StoredMessage(id) == [id |-> id, type |-> "text", content |-> "hi", reactions |-> <<>>]
NoHistoryTask == [pc |-> "none", id |-> "", user_id |-> "", emoji |-> NoEmoji,
                  raw |-> <<>>, idx |-> 0, msg |-> StoredMessage("")]

\* ------------------------------------------------------------------- Init
NewSock == [state |-> "NEW", chatId |-> "r", userId |-> "u1", ipAddress |-> NoIp,
            pc |-> "new", code |-> NoCode, isGhost |-> FALSE,
            atCapacity |-> FALSE, prevCount |-> 0, created |-> FALSE]

NoTasks == [ev \in Events |-> "none"]
\* no frame in hand; otherwise the frame and the content length and
\* senderNickname of the handler's newMessage
NoFrameTask == [pc |-> "none", frame |-> NoFrame, len |-> 0, nick |-> NoNick]

\* the server process starts with empty userStore maps and no sockets
Idle ==
    /\ rooms = [r \in RoomIds |-> NoUsers]
    /\ socketToInfo = {}
    /\ sock = [c \in Conns |-> NewSock]
    /\ ftask = [c \in Conns |-> NoFrameTask]
    /\ dtask = [c \in Conns |-> NoTasks]
    /\ adminTask = [r \in RoomIds |-> "none"]
    /\ requests = 0
    /\ sends = 0
    /\ storeTask = "none"
    /\ pipe = [c \in Conns |-> <<>>]
    /\ limiter = [u \in Users |-> 0]
    /\ admitted = [u \in Users |-> 0]
    /\ arrival = NoSocket
    /\ music = [r \in RoomIds |-> NoMusic]
    /\ mtask = [c \in Conns |-> NoMusicTask]
    /\ now = StartTime
    /\ htask = [c \in Conns |-> NoHistoryTask]
    /\ unhandled = {}
    /\ theme = [r \in RoomIds |-> NoTheme]
    /\ ttask = [c \in Conns |-> NoThemeTask]
    /\ sent = <<>>

\* The store outlives the server process: when the server starts, the room
\* id is unused or names a group room an administrator created earlier.
\* config/redis.ts configures the supabase repository.
Init ==
    /\ backend = "supabase"
    /\ room \in [RoomIds -> {NoRoom, GroupRoom}]
    /\ participants = [r \in RoomIds |-> {}]
    /\ ghosts = [r \in RoomIds |-> {}]
    /\ bannedUsers = {}
    /\ bannedIps = {}
    /\ messages = [r \in RoomIds |-> <<>>]
    /\ Idle

\* a frame or an administrative request is served (at most MaxRequests a run)
Request ==
    /\ requests < MaxRequests
    /\ requests' = requests + 1

\* --------------------------------------------- server.ts / onConnection
\* A client opens a websocket for (chatId, userId); req.ip may be missing.
\* onConnection closes a socket without address and otherwise calls
\* handleUserConnected, which awaits roomExists.  Nothing reads or writes a
\* socket before that first read returns, so the open and the read are one
\* step.
onConnection(c, r, u, hasIp) ==
    /\ sock[c].state = "NEW"
    /\ <<c, u>> \in Clients
    /\ sock' = [sock EXCEPT ![c] =
          IF hasIp
          THEN [@ EXCEPT !.state = "OPEN", !.chatId = r, !.userId = u,
                         !.ipAddress = IpOf(u),
                         !.pc = IF roomExists(r) THEN "ban" ELSE "create"]
          ELSE [@ EXCEPT !.state = "CLOSING", !.chatId = r, !.userId = u,
                         !.ipAddress = NoIp, !.pc = "rejected",
                         !.code = BAD_REQUEST_CODE]]
    /\ sent' = <<>>
    /\ UNCHANGED <<storeVars, registryVars, ftask, dtask, adminTask, requests,
                   storeRunVars>>

\* ----------------------------------------- roomHandler.handleUserConnected
\* a connection that creates the room with the capacity its request asks for
handleUserConnected_createRoom_asked(c) ==
    /\ sock[c].pc = "create"
    /\ room' = createRoom(room, sock[c].chatId, GroupCap)
    /\ sock' = [sock EXCEPT ![c].pc = "ban",
                            ![c].created = ~room[sock[c].chatId].exists]
    /\ sent' = <<>>
    /\ UNCHANGED <<participants, ghosts, bannedUsers, bannedIps, messages,
                   registryVars, ftask, dtask, adminTask, requests, storeRunVars>>

\* roomExists returned false: createRoom(chatId, "1-1 Chat", 2)
handleUserConnected_createRoom(c) ==
    /\ sock[c].pc = "create"
    /\ room' = createRoom(room, sock[c].chatId, DEFAULT_MAX_PARTICIPANTS)
    /\ sock' = [sock EXCEPT ![c].pc = "ban",
                            ![c].created = ~room[sock[c].chatId].exists]
    /\ sent' = <<>>
    /\ UNCHANGED <<participants, ghosts, bannedUsers, bannedIps, messages,
                   registryVars, ftask, dtask, adminTask, requests, storeRunVars>>

\* the two ban lookups of isUserBanned, then `throw` after ws.close
handleUserConnected_isUserBanned(c) ==
    /\ sock[c].pc = "ban"
    /\ sock' = [sock EXCEPT ![c] =
          IF isUserBanned(@.chatId, @.userId, @.ipAddress)
          THEN [wsClose(@, BANNED_ROOM_CODE) EXCEPT !.pc = "rejected"]
          ELSE [@ EXCEPT !.pc = "admit"]]
    /\ sent' = <<>>
    /\ UNCHANGED <<storeVars, registryVars, ftask, dtask, adminTask, requests,
                   storeRunVars>>

\* the room-full test of the previous revision: onlineCount >= maxParticipants
roomIsFull_onlineCount(userIds, userId, maxParticipants, isGhost) ==
    Cardinality(userIds) >= maxParticipants /\ ~isGhost

\* the room-full test with > for >=
roomIsFull_offByOne(userIds, userId, maxParticipants, isGhost) ==
    userId \notin userIds /\ Cardinality(userIds) > maxParticipants /\ ~isGhost

\* the room-full test made after getRoomInfo and isGhostMode have returned
roomIsFull(userIds, userId, maxParticipants, isGhost) ==
    userId \notin userIds /\ Cardinality(userIds) >= maxParticipants /\ ~isGhost

\* getRoomInfo and isGhostMode (two reads, combined only after the second),
\* then the capacity test on the registry
handleUserConnected_isGhostMode(c, ok) ==
    /\ sock[c].pc = "admit"
    /\ LET maxParticipants == maxParticipantsOf(getRoomInfo(sock[c].chatId, ok))
           isGhost == isGhostMode(sock[c].chatId, sock[c].userId)
           userIds == getOnlineUsersInRoom(rooms[sock[c].chatId])
           atCapacity == Cardinality(userIds) >= maxParticipants
       IN sock' = [sock EXCEPT ![c] =
             IF roomIsFull(userIds, @.userId, maxParticipants, isGhost)
             THEN [wsClose(@, ROOM_FULL_CODE) EXCEPT !.pc = "rejected",
                                                     !.atCapacity = atCapacity]
             ELSE [@ EXCEPT !.pc = "contains", !.isGhost = isGhost,
                            !.atCapacity = atCapacity, !.created = FALSE]]
    /\ sent' = <<>>
    /\ UNCHANGED <<storeVars, registryVars, ftask, dtask, adminTask, requests,
                   storeRunVars>>

\* userStore.addUserToRoom(ws, userId, chatId) as called by the handler
Register(c) ==
    /\ rooms' = [rooms EXCEPT ![sock[c].chatId] = addUserToRoom(@, c, sock[c].userId)]
    /\ socketToInfo' = socketToInfo \cup {c}

handleUserConnected_containsParticipant(c) ==
    /\ sock[c].pc = "contains"
    /\ IF containsParticipant(sock[c].chatId, sock[c].userId)
       THEN /\ Register(c)
            /\ sock' = [sock EXCEPT ![c].pc = "announce",
                  ![c].prevCount = SocketCount(rooms[sock[c].chatId], sock[c].userId)]
       ELSE /\ sock' = [sock EXCEPT ![c].pc = "addPart"]
            /\ UNCHANGED registryVars
    /\ sent' = <<>>
    /\ UNCHANGED <<storeVars, ftask, dtask, adminTask, requests, storeRunVars>>

handleUserConnected_addParticipant(c) ==
    /\ sock[c].pc = "addPart"
    /\ LET r == sock[c].chatId
           u == sock[c].userId
       IN /\ participants' = addParticipant(participants, r, u)
          /\ ghosts' = IF room[r].exists THEN [ghosts EXCEPT ![r] = @ \ {u}] ELSE ghosts
          /\ Register(c)
          /\ sock' = [sock EXCEPT ![c].pc = "announce",
                                  ![c].prevCount = SocketCount(rooms[r], u)]
    /\ sent' = <<>>
    /\ UNCHANGED <<room, bannedUsers, bannedIps, messages, ftask, dtask, adminTask,
                   requests, storeRunVars>>

\* whether handleUserConnected broadcasts participant_joined
joinNeeded(isGhost, prevCount) == ~isGhost

\* getMusicInfo and (unless ghost) getNickname, then the participant_joined
\* broadcast to the whole room; handleUserConnected returns and onConnection
\* registers the message, close and error listeners
handleUserConnected_getNickname(c) ==
    /\ sock[c].pc = "announce"
    /\ sock' = [sock EXCEPT ![c].pc = "attached", ![c].isGhost = FALSE,
                            ![c].atCapacity = FALSE, ![c].prevCount = 0]
    /\ sent' = IF joinNeeded(sock[c].isGhost, sock[c].prevCount)
               THEN Packets(broadcastToRoom(rooms[sock[c].chatId], NoSocket),
                            "participant_joined", sock[c].userId, NoBody)
               ELSE <<>>
    /\ UNCHANGED <<storeVars, registryVars, ftask, dtask, adminTask, requests,
                   storeRunVars>>

\* ------------------------------------------------------------ socket events
\* onConnection registers the listeners only after handleUserConnected has
\* returned
Listening(c) == sock[c].pc = "attached"

\* an emitted event calls handleDisconnect, which awaits getRoomInfo
Emit(c, ev) == dtask' = [dtask EXCEPT ![c][ev] = "info"]

\* the peer closes the connection: 'close' is emitted
ClientClose(c) ==
    /\ sock[c].state = "OPEN"
    /\ Listening(c)
    /\ sock' = [sock EXCEPT ![c].state = "CLOSED"]
    /\ Emit(c, "close")
    /\ sent' = <<>>
    /\ UNCHANGED <<storeVars, registryVars, ftask, adminTask, requests,
                   storeRunVars>>

\* a transport error: 'error' is emitted and the socket starts closing
SocketError(c) ==
    /\ sock[c].state = "OPEN"
    /\ Listening(c)
    /\ c \in ErrorProne
    /\ sock' = [sock EXCEPT ![c].state = "CLOSING"]
    /\ Emit(c, "error")
    /\ sent' = <<>>
    /\ UNCHANGED <<storeVars, registryVars, ftask, adminTask, requests,
                   storeRunVars>>

\* a closing socket finishes closing: 'close' is emitted
SocketClosed(c) ==
    /\ sock[c].state = "CLOSING"
    /\ Listening(c)
    /\ sock' = [sock EXCEPT ![c].state = "CLOSED"]
    /\ Emit(c, "close")
    /\ sent' = <<>>
    /\ UNCHANGED <<storeVars, registryVars, ftask, adminTask, requests,
                   storeRunVars>>

\* -------------------------------------------- roomHandler.handleDisconnect
isGroupChat(info) == maxParticipantsOf(info) > 2

\* whether handleDisconnect broadcasts `offline` after removeUser
offlineNeeded(reg, userId) == userId \notin getOnlineUsersInRoom(reg)

\* whether handleDisconnect goes on to delete the room
deleteNeeded(reg, info, r) ==
    Cardinality(getOnlineUsersInRoom(reg)) = 0 /\ ~isGroupChat(info)

\* getRoomInfo, then removeUser, the offline broadcast and the emptiness test
handleDisconnect_getRoomInfo(c, ev, ok) ==
    /\ dtask[c][ev] = "info"
    /\ LET r == sock[c].chatId
           u == sock[c].userId
           info == getRoomInfo(r, ok)
           reg == removeUser(rooms[r], socketToInfo, c, u)
       IN /\ rooms' = [rooms EXCEPT ![r] = reg]
          /\ socketToInfo' = removeUserInfo(rooms[r], socketToInfo, c, u)
          /\ sent' = IF offlineNeeded(reg, u)
                     THEN Packets(broadcastToRoom(reg, c), "offline", u, NoBody)
                     ELSE <<>>
          /\ dtask' = [dtask EXCEPT ![c][ev] =
                          IF deleteNeeded(reg, info, r) THEN "delete" ELSE "none"]
    /\ UNCHANGED <<storeVars, sock, ftask, adminTask, requests, storeRunVars>>

handleDisconnect_deleteRoom(c, ev) ==
    /\ dtask[c][ev] = "delete"
    /\ DeleteRoomStore(sock[c].chatId)
    /\ dtask' = [dtask EXCEPT ![c][ev] = "none"]
    /\ sent' = <<>>
    /\ UNCHANGED <<registryVars, sock, ftask, adminTask, requests, storeRunVars>>

\* ------------------------------------------ index.ts: the message listener
isTextMessage(mtype) == mtype \in {"user", "text"}

\* content?.slice(0, 700) for text messages
clamp(mtype, len) == IF isTextMessage(mtype) THEN Min(len, MAX_TEXT_LENGTH) ELSE len

\* A frame arrives on an open socket with listeners.  rateLimiter.consume
\* resolves: a run serves fewer frames than the limiter's allowance.  The
\* listener then awaits isIpBanned; nothing reads or writes the frame before
\* that read returns, so the arrival and the read are one step.  A banned
\* address gets an error packet and close(4000); otherwise the packet's
\* handler runs up to its first await.  A client sends its next frame when
\* the previous one has been handled.
onMessage(c, f) ==
    /\ sock[c].state = "OPEN"
    /\ Listening(c)
    /\ ftask[c].pc = "none"
    /\ c \in Senders
    /\ Request
    /\ IF repoIsIpBanned(sock[c].chatId, sock[c].ipAddress)
       THEN /\ sent' = Packets({c}, "error", "banned", NoBody)
            /\ sock' = [sock EXCEPT ![c] = wsClose(@, BANNED_FRAME_CODE)]
            /\ UNCHANGED ftask
       ELSE /\ sent' = <<>>
            /\ UNCHANGED sock
            /\ ftask' = [ftask EXCEPT ![c] =
                  IF f.type = "disconnect"
                  THEN [NoFrameTask EXCEPT !.pc = "dinfo", !.frame = f]
                  ELSE [pc |-> IF f.nick = NoNick THEN "nick" ELSE "add",
                        frame |-> f, len |-> clamp(f.mtype, f.len),
                        nick |-> f.nick]]
    /\ UNCHANGED <<storeVars, registryVars, dtask, adminTask, storeRunVars>>

\* ------------------------------------- messageHandler.handleSendMessage
\* message.senderNickname ?? (await getNickname(...) ?? "Anonymous")
resolveNickname(r, u) ==
    IF getNickname(r, u) = NoNick THEN "Anonymous" ELSE getNickname(r, u)

handleSendMessage_getNickname(c) ==
    /\ ftask[c].pc = "nick"
    /\ ftask' = [ftask EXCEPT ![c].pc = "add",
                    ![c].nick = resolveNickname(sock[c].chatId, sock[c].userId)]
    /\ sent' = <<>>
    /\ UNCHANGED <<storeVars, registryVars, sock, dtask, adminTask, requests,
                   storeRunVars>>

\* the sockets the message packet is broadcast to, the sender included
messageTargets_all(reg, ws) == broadcastToRoom(reg, NoSocket)

\* broadcastToRoom(chatId, packet, ws)
messageTargets(reg, ws) == broadcastToRoom(reg, ws)

\* addMessage has returned: the acknowledgment is written to the sender and
\* the message packet is broadcast to the rest of the room
handleSendMessage_addMessage(c) ==
    /\ ftask[c].pc = "add"
    /\ LET r == sock[c].chatId
           f == ftask[c].frame
           body == [len |-> ftask[c].len, nick |-> ftask[c].nick]
       IN /\ messages' = [messages EXCEPT ![r] =
                 supabaseAddMessage(@, r, [id |-> f.id])]
          /\ sent' = Packets({c}, "message_acknowledgment", f.id, NoBody)
                     \o Packets(messageTargets(rooms[r], c), "message", f.id, body)
    /\ ftask' = [ftask EXCEPT ![c] = NoFrameTask]
    /\ UNCHANGED <<room, participants, ghosts, bannedUsers, bannedIps,
                   registryVars, sock, dtask, adminTask, requests, storeRunVars>>

\* ------------------------------------ roomHandler.handleDisconnectPacket
\* roomInfo.max_participants && roomInfo.max_participants > 2
isGroupChatPacket(info) == info.max_participants > 2

handleDisconnectPacket_getRoomInfo(c, ok) ==
    /\ ftask[c].pc = "dinfo"
    /\ ftask' = [ftask EXCEPT ![c] =
          IF isGroupChatPacket(getRoomInfo(sock[c].chatId, ok))
          THEN NoFrameTask ELSE [@ EXCEPT !.pc = "mark"]]
    /\ sent' = <<>>
    /\ UNCHANGED <<storeVars, registryVars, sock, dtask, adminTask, requests,
                   storeRunVars>>

\* markClosed has returned: the disconnect packet goes to the rest of the room
handleDisconnectPacket_markClosed(c) ==
    /\ ftask[c].pc = "mark"
    /\ room' = markClosed(room, sock[c].chatId)
    /\ sent' = Packets(broadcastToRoom(rooms[sock[c].chatId], c), "disconnect",
                       sock[c].userId, NoBody)
    /\ ftask' = [ftask EXCEPT ![c] = NoFrameTask]
    /\ UNCHANGED <<participants, ghosts, bannedUsers, bannedIps, messages,
                   registryVars, sock, dtask, adminTask, requests, storeRunVars>>

\* ------------------------------------------------- administrative surface
\* roomController.deleteRoom: roomExists, then deleteRoom and
\* userStore.deleteRoom
AdminDeleteRoom_roomExists(r) ==
    /\ adminTask[r] = "none"
    /\ Request
    /\ roomExists(r)
    /\ adminTask' = [adminTask EXCEPT ![r] = "delete"]
    /\ sent' = <<>>
    /\ UNCHANGED <<storeVars, registryVars, sock, ftask, dtask, storeRunVars>>

AdminDeleteRoom_deleteRoom(r) ==
    /\ adminTask[r] = "delete"
    /\ DeleteRoomStore(r)
    /\ rooms' = [rooms EXCEPT ![r] = NoUsers]
    /\ adminTask' = [adminTask EXCEPT ![r] = "none"]
    /\ sent' = <<>>
    /\ UNCHANGED <<socketToInfo, sock, ftask, dtask, requests, storeRunVars>>

\* roomController.ghostMode: setGhostMode updates the caller's participant row
AdminGhostMode(r, u, enable) ==
    /\ Request
    /\ u \in Admins
    /\ room[r].exists
    /\ u \in participants[r]
    /\ enable # (u \in ghosts[r])
    /\ ghosts' = [ghosts EXCEPT ![r] = IF enable THEN @ \cup {u} ELSE @ \ {u}]
    /\ sent' = <<>>
    /\ UNCHANGED <<room, participants, bannedUsers, bannedIps, messages,
                   registryVars, sock, ftask, dtask, adminTask, storeRunVars>>

\* repository.banUser
BanUser(r, u) ==
    /\ Request
    /\ u \in BannableUsers
    /\ room[r].exists
    /\ <<r, u>> \notin bannedUsers
    /\ bannedUsers' = bannedUsers \cup {<<r, u>>}
    /\ sent' = <<>>
    /\ UNCHANGED <<room, participants, ghosts, bannedIps, messages,
                   registryVars, sock, ftask, dtask, adminTask, storeRunVars>>

\* repository.banIp: the relational store bans an address for every room
BanIp(ip) ==
    /\ Request
    /\ ip \in BannableIps
    /\ ip \notin bannedIps
    /\ bannedIps' = bannedIps \cup {ip}
    /\ sent' = <<>>
    /\ UNCHANGED <<room, participants, ghosts, bannedUsers, messages,
                   registryVars, sock, ftask, dtask, adminTask, storeRunVars>>

\* ------------------------------------------------------ the specifications
Serve(Oks) ==
    \/ \E c \in Conns, r \in RoomIds, u \in Users, hasIp \in BOOLEAN :
          onConnection(c, r, u, hasIp)
    \/ \E c \in Conns : handleUserConnected_createRoom(c)
    \/ \E c \in Conns : handleUserConnected_isUserBanned(c)
    \/ \E c \in Conns, ok \in Oks : handleUserConnected_isGhostMode(c, ok)
    \/ \E c \in Conns : handleUserConnected_containsParticipant(c)
    \/ \E c \in Conns : handleUserConnected_addParticipant(c)
    \/ \E c \in Conns : handleUserConnected_getNickname(c)
    \/ \E c \in Conns : ClientClose(c)
    \/ \E c \in Conns : SocketError(c)
    \/ \E c \in Conns : SocketClosed(c)
    \/ \E c \in Conns, ev \in Events, ok \in Oks : handleDisconnect_getRoomInfo(c, ev, ok)
    \/ \E c \in Conns, ev \in Events : handleDisconnect_deleteRoom(c, ev)
    \/ \E c \in Conns, f \in Frames : onMessage(c, f)
    \/ \E c \in Conns : handleSendMessage_getNickname(c)
    \/ \E c \in Conns : handleSendMessage_addMessage(c)
    \/ \E c \in Conns, ok \in Oks : handleDisconnectPacket_getRoomInfo(c, ok)
    \/ \E c \in Conns : handleDisconnectPacket_markClosed(c)
    \/ \E r \in RoomIds : AdminDeleteRoom_roomExists(r)
    \/ \E r \in RoomIds : AdminDeleteRoom_deleteRoom(r)
    \/ \E r \in RoomIds, u \in Users, enable \in BOOLEAN : AdminGhostMode(r, u, enable)
    \/ \E r \in RoomIds, u \in Users : BanUser(r, u)
    \/ \E ip \in Ips : BanIp(ip)

\* every store read returns the row
Next == Serve({TRUE})

Spec == Init /\ [][Next]_vars

\* a getRoomInfo read may fail: the error is logged and {} is returned
NextFaulty == Serve(BOOLEAN)

SpecFaulty == Init /\ [][NextFaulty]_vars

\* ------------------------------------------------- the message store alone
\* A run of sequential sends into one room against either repository
\* implementation: every addMessage is awaited before the next is called.
InitStore ==
    /\ backend \in Backends
    /\ room = [r \in RoomIds |-> createRoom([q \in RoomIds |-> NoRoom], r,
                                            DEFAULT_MAX_PARTICIPANTS)[r]]
    /\ participants = [r \in RoomIds |-> {}]
    /\ ghosts = [r \in RoomIds |-> {}]
    /\ bannedUsers = {}
    /\ bannedIps = {}
    /\ messages = [r \in RoomIds |-> <<>>]
    /\ Idle

\* the message of the n-th send
Message(n) == [id |-> n]

storeFrame == <<room, participants, ghosts, bannedUsers, bannedIps, registryVars,
                sock, ftask, dtask, adminTask, requests, backend, listenerRunVars,
                musicRunVars, historyRunVars, themeRunVars, sent>>

\* redis addMessage: LPUSH returns, LTRIM is awaited
addMessage_lpush(r) ==
    /\ backend = "redis"
    /\ storeTask = "none"
    /\ sends < MaxSends
    /\ sends' = sends + 1
    /\ messages' = [messages EXCEPT ![r] = lpush(@, Message(sends + 1))]
    /\ storeTask' = "ltrim"
    /\ UNCHANGED storeFrame

addMessage_ltrim(r) ==
    /\ backend = "redis"
    /\ storeTask = "ltrim"
    /\ messages' = [messages EXCEPT ![r] = ltrim(@, LTRIM_STOP)]
    /\ storeTask' = "none"
    /\ UNCHANGED <<storeFrame, sends>>

\* supabase addMessage: the insert
addMessage_insert(r) ==
    /\ backend = "supabase"
    /\ storeTask = "none"
    /\ sends < MaxSends
    /\ sends' = sends + 1
    /\ messages' = [messages EXCEPT ![r] = supabaseAddMessage(@, r, Message(sends + 1))]
    /\ UNCHANGED <<storeFrame, storeTask>>

NextStore ==
    \/ \E r \in RoomIds : addMessage_lpush(r)
    \/ \E r \in RoomIds : addMessage_ltrim(r)
    \/ \E r \in RoomIds : addMessage_insert(r)

SpecStore == InitStore /\ [][NextStore]_vars

\* ------------------------------------------- the message listener alone
\* A run of the message listener of index.ts over sockets that are already
\* attached: u1 on c1 and c3, u2 on c2, in a pair room.  The listener is an
\* async function and calls the packet handler without awaiting it, so the
\* frames of one socket are handled by tasks that run side by side; each
\* task advances when the store call it awaits returns.
Attached(u) == [NewSock EXCEPT !.state = "OPEN", !.userId = u,
                               !.ipAddress = IpOf(u), !.pc = "attached"]

InitListener ==
    /\ backend = "supabase"
    /\ room = [r \in RoomIds |-> createRoom([q \in RoomIds |-> NoRoom], r,
                                            DEFAULT_MAX_PARTICIPANTS)[r]]
    /\ participants = [r \in RoomIds |-> {"u1", "u2"}]
    /\ ghosts = [r \in RoomIds |-> {}]
    /\ bannedUsers = {}
    /\ bannedIps = {}
    /\ messages = [r \in RoomIds |-> <<>>]
    /\ rooms = [r \in RoomIds |->
                   [u \in Users |-> {c \in Conns : <<c, u>> \in
                                        {<<"c1", "u1">>, <<"c2", "u2">>, <<"c3", "u1">>}}]]
    /\ socketToInfo = Conns
    /\ sock = [c \in Conns |-> Attached(IF c = "c2" THEN "u2" ELSE "u1")]
    /\ ftask = [c \in Conns |-> NoFrameTask]
    /\ dtask = [c \in Conns |-> NoTasks]
    /\ adminTask = [r \in RoomIds |-> "none"]
    /\ requests = 0
    /\ sends = 0
    /\ storeTask = "none"
    /\ pipe = [c \in Conns |-> <<>>]
    /\ limiter = [u \in Users |-> 0]
    /\ admitted = [u \in Users |-> 0]
    /\ arrival = NoSocket
    /\ music = [r \in RoomIds |-> NoMusic]
    /\ mtask = [c \in Conns |-> NoMusicTask]
    /\ now = StartTime
    /\ htask = [c \in Conns |-> NoHistoryTask]
    /\ unhandled = {}
    /\ theme = [r \in RoomIds |-> NoTheme]
    /\ ttask = [c \in Conns |-> NoThemeTask]
    /\ sent = <<>>

\* what a run of the listener leaves alone
listenerFrame == <<backend, sends, storeTask, room, participants, ghosts,
                   bannedUsers, registryVars, ftask, dtask, adminTask, musicRunVars,
                   historyRunVars, themeRunVars>>

RemoveAt(s, i) == SubSeq(s, 1, i - 1) \o SubSeq(s, i + 1, Len(s))

InFlight == Len(pipe["c1"]) + Len(pipe["c2"]) + Len(pipe["c3"])

\* ws.send: a socket that is not open drops the packet
sendTo(c, type, about, body) ==
    Packets({s \in {c} : sock[s].state = "OPEN"}, type, about, body)

\* rateLimiter.consume(ws.userId, 1) letting one frame too many through
quotaLeft_inclusive(consumed) == consumed <= RATE_LIMIT_POINTS

\* rateLimiter.consume(ws.userId, 1) resolves while the points consumed in
\* the window, this one included, do not exceed `points`
quotaLeft(consumed) == consumed + 1 <= RATE_LIMIT_POINTS

\* a frame arrives and rateLimiter.consume rejects: the error packet goes to
\* the socket and the listener returns
listener_rateLimited(c, f) ==
    /\ sock[c].state = "OPEN"
    /\ Listening(c)
    /\ c \in FrameSenders
    /\ requests < MaxFrames
    /\ ~quotaLeft(limiter[sock[c].userId])
    /\ requests' = requests + 1
    /\ arrival' = c
    /\ sent' = sendTo(c, "error", "Rate limit exceeded", NoBody)
    /\ UNCHANGED <<listenerFrame, bannedIps, messages, sock, pipe, limiter, admitted>>

\* a frame arrives and rateLimiter.consume resolves: the listener parses the
\* frame and awaits isIpBanned
listener_consume(c, f) ==
    /\ sock[c].state = "OPEN"
    /\ Listening(c)
    /\ c \in FrameSenders
    /\ requests < MaxFrames
    /\ InFlight < MaxInFlight
    /\ quotaLeft(limiter[sock[c].userId])
    /\ requests' = requests + 1
    /\ arrival' = c
    /\ limiter' = [limiter EXCEPT ![sock[c].userId] = @ + 1]
    /\ admitted' = [admitted EXCEPT ![sock[c].userId] = @ + 1]
    /\ pipe' = [pipe EXCEPT ![c] =
          Append(@, [frame |-> f, pc |-> "ban",
                     len |-> clamp(f.mtype, f.len), nick |-> f.nick])]
    /\ sent' = <<>>
    /\ UNCHANGED <<listenerFrame, bannedIps, messages, sock>>

\* the limiter's window of a user ends, `duration` after its first point
limiter_expire(u) ==
    /\ limiter[u] > 0
    /\ limiter' = [limiter EXCEPT ![u] = 0]
    /\ admitted' = [admitted EXCEPT ![u] = 0]
    /\ sent' = <<>>
    /\ UNCHANGED <<listenerFrame, bannedIps, messages, sock, pipe, requests, arrival>>

\* the listener of the previous revision: no ban lookup on frames
frameIsBanned_never(r, ip) == FALSE

\* the listener's ban lookup: isIpBanned(ws.chatId, ws.ipAddress)
frameIsBanned(r, ip) == repoIsIpBanned(r, ip)

\* isIpBanned has returned.  A banned address gets an error packet and
\* close(4000).  Otherwise the packet's handler is called and runs up to its
\* first await; a packet without handler is broadcast to the rest of the room.
listener_isIpBanned(c, i) ==
    /\ i \in 1..Len(pipe[c])
    /\ pipe[c][i].pc = "ban"
    /\ LET t == pipe[c][i]
           r == sock[c].chatId
       IN IF frameIsBanned(r, sock[c].ipAddress)
          THEN /\ sent' = sendTo(c, "error", "banned", NoBody)
               /\ sock' = [sock EXCEPT ![c] = wsClose(@, BANNED_FRAME_CODE)]
               /\ pipe' = [pipe EXCEPT ![c] = RemoveAt(@, i)]
          ELSE /\ UNCHANGED sock
               /\ IF t.frame.type = "message"
                  THEN /\ pipe' = [pipe EXCEPT ![c][i].pc =
                                      IF t.nick = NoNick THEN "nick" ELSE "add"]
                       /\ sent' = <<>>
                  ELSE IF t.frame.type = "edit_message"
                  THEN /\ pipe' = [pipe EXCEPT ![c][i].pc = "edit"]
                       /\ sent' = <<>>
                  ELSE /\ pipe' = [pipe EXCEPT ![c] = RemoveAt(@, i)]
                       /\ sent' = Packets(broadcastToRoom(rooms[r], c),
                                          t.frame.type, t.frame.id, NoBody)
    /\ UNCHANGED <<listenerFrame, bannedIps, messages, requests, limiter, admitted,
                   arrival>>

\* handleSendMessage: getNickname has returned
listener_getNickname(c, i) ==
    /\ i \in 1..Len(pipe[c])
    /\ pipe[c][i].pc = "nick"
    /\ pipe' = [pipe EXCEPT ![c][i].pc = "add",
                   ![c][i].nick = resolveNickname(sock[c].chatId, sock[c].userId)]
    /\ sent' = <<>>
    /\ UNCHANGED <<listenerFrame, bannedIps, messages, sock, requests, limiter,
                   admitted, arrival>>

\* handleSendMessage: addMessage has returned
listener_addMessage(c, i) ==
    /\ i \in 1..Len(pipe[c])
    /\ pipe[c][i].pc = "add"
    /\ LET t == pipe[c][i]
           r == sock[c].chatId
           body == [len |-> t.len, nick |-> t.nick]
       IN /\ messages' = [messages EXCEPT ![r] = supabaseAddMessage(@, r,
                             [id |-> t.frame.id, len |-> t.len, edited |-> FALSE])]
          /\ sent' = sendTo(c, "message_acknowledgment", t.frame.id, NoBody)
                     \o Packets(messageTargets(rooms[r], c), "message", t.frame.id, body)
    /\ pipe' = [pipe EXCEPT ![c] = RemoveAt(@, i)]
    /\ UNCHANGED <<listenerFrame, bannedIps, sock, requests, limiter, admitted,
                   arrival>>

\* repository.editMessage: update ... set content, edited where id = messageId
editMessage(rows, messageId, newContent) ==
    [k \in 1..Len(rows) |->
        IF rows[k].id = messageId
        THEN [rows[k] EXCEPT !.len = newContent, !.edited = TRUE]
        ELSE rows[k]]

\* handleEditMessage: editMessage has returned; its result is not looked at
listener_editMessage(c, i) ==
    /\ i \in 1..Len(pipe[c])
    /\ pipe[c][i].pc = "edit"
    /\ LET t == pipe[c][i]
           r == sock[c].chatId
       IN /\ messages' = [messages EXCEPT ![r] = editMessage(@, t.frame.id, t.frame.len)]
          /\ sent' = Packets(broadcastToRoom(rooms[r], c), "edit_message", t.frame.id,
                             [len |-> t.frame.len, nick |-> NoNick])
    /\ pipe' = [pipe EXCEPT ![c] = RemoveAt(@, i)]
    /\ UNCHANGED <<listenerFrame, bannedIps, sock, requests, limiter, admitted,
                   arrival>>

\* repository.banIp of the address of an attached socket
listener_banIp(ip) ==
    /\ ip \in {sock[c].ipAddress : c \in Conns}
    /\ ip \notin bannedIps
    /\ bannedIps' = bannedIps \cup {ip}
    /\ sent' = <<>>
    /\ UNCHANGED <<listenerFrame, messages, sock, pipe, requests, limiter, admitted,
                   arrival>>

NextListener ==
    \/ \E c \in Conns, f \in ListenerFrames : listener_rateLimited(c, f)
    \/ \E c \in Conns, f \in ListenerFrames : listener_consume(c, f)
    \/ \E u \in Users : limiter_expire(u)
    \/ \E c \in Conns, i \in 1..MaxInFlight : listener_isIpBanned(c, i)
    \/ \E c \in Conns, i \in 1..MaxInFlight : listener_getNickname(c, i)
    \/ \E c \in Conns, i \in 1..MaxInFlight : listener_addMessage(c, i)
    \/ \E c \in Conns, i \in 1..MaxInFlight : listener_editMessage(c, i)
    \/ \E ip \in Ips : listener_banIp(ip)

SpecListener == InitListener /\ [][NextListener]_vars

\* ------------------------------------------------ the music handlers alone
\* A group room with three users online, one socket each, and a music_info
\* that outlived earlier runs or none.  Handlers of different sockets run
\* side by side; each advances when the store call it awaits returns.
UserOf(c) == IF c = "c1" THEN "u1" ELSE IF c = "c2" THEN "u2" ELSE "u3"

\* a music_info as an earlier run left it: a song playing since one second
\* before the run, one song queued
StoredMusic == [exists |-> TRUE,
                keys |-> {"currentSong", "progress", "state", "queue", "playTime"},
                val |-> [BlankMusic EXCEPT !.currentSong = "A", !.progress = 7,
                                           !.state = "playing", !.queue = <<"B">>,
                                           !.playTime = StartTime - 1000]]

InitMusic ==
    /\ backend = "supabase"
    /\ room = [r \in RoomIds |-> GroupRoom]
    /\ participants = [r \in RoomIds |-> Users]
    /\ ghosts = [r \in RoomIds |-> {}]
    /\ bannedUsers = {}
    /\ bannedIps = {}
    /\ messages = [r \in RoomIds |-> <<>>]
    /\ rooms = [r \in RoomIds |-> [u \in Users |-> {c \in Conns : UserOf(c) = u}]]
    /\ socketToInfo = Conns
    /\ sock = [c \in Conns |-> Attached(UserOf(c))]
    /\ ftask = [c \in Conns |-> NoFrameTask]
    /\ dtask = [c \in Conns |-> NoTasks]
    /\ adminTask = [r \in RoomIds |-> "none"]
    /\ requests = 0
    /\ sends = 0
    /\ storeTask = "none"
    /\ pipe = [c \in Conns |-> <<>>]
    /\ limiter = [u \in Users |-> 0]
    /\ admitted = [u \in Users |-> 0]
    /\ arrival = NoSocket
    /\ music \in [RoomIds -> {NoMusic, StoredMusic}]
    /\ mtask = [c \in Conns |-> NoMusicTask]
    /\ now = StartTime
    /\ htask = [c \in Conns |-> NoHistoryTask]
    /\ unhandled = {}
    /\ theme = [r \in RoomIds |-> NoTheme]
    /\ ttask = [c \in Conns |-> NoThemeTask]
    /\ sent = <<>>

\* the sockets whose peers may leave during the run
Leavers == {"c3"}

\* what a run of the music handlers leaves alone
musicFrame == <<storeVars, registryVars, sock, ftask, dtask, adminTask, backend,
                sends, storeTask, listenerRunVars, historyRunVars, themeRunVars,
                now>>

\* a music frame arrives on an attached socket with no music frame in hand
MusicFrameArrives(c) ==
    /\ sock[c].state = "OPEN"
    /\ Listening(c)
    /\ mtask[c].pc = "none"
    /\ requests < MaxMusicFrames
    /\ requests' = requests + 1

\* the handler of c goes on to the state `pc`
MusicTask(c, pc, song, current, count, payload) ==
    mtask' = [mtask EXCEPT ![c] =
                 [pc |-> pc, song |-> song, current |-> current,
                  online |-> Cardinality(getOnlineUsersInRoom(rooms[sock[c].chatId])),
                  count |-> count, payload |-> payload]]

MusicDone(c) == mtask' = [mtask EXCEPT ![c] = NoMusicTask]

\* the awaited updateMusicInfo of c's handler returns
MusicUpdated(c) ==
    music' = [music EXCEPT ![sock[c].chatId] =
                 updateMusicInfo(@, sock[c].chatId, mtask[c].payload)]

\* broadcastToRoom(ws.chatId, packet): every open socket of the room
toRoom(c, type, about) ==
    Packets(broadcastToRoom(rooms[sock[c].chatId], NoSocket), type, about, NoBody)

\* sendSystemMessage: a `message` packet from "system" to the room
sendSystemMessage(c) == toRoom(c, "message", "system")

\* current.queue?.shift(): the song taken and the queue left
hasNext(current) == "queue" \in current.keys /\ current.val.queue # <<>>
nextSong(current) == Head(current.val.queue)
shifted(current) == Tail(current.val.queue)

\* Math.ceil(onlineCount / 2)
requiredVotes(onlineCount) == (onlineCount + 1) \div 2
\* Math.ceil(onlineUsers.length / 2)
requiredCount(onlineCount) == (onlineCount + 1) \div 2

\* skipVotes.length >= requiredVotes
hasEnoughVotes_strict(votes, required) == votes > required
hasEnoughVotes(votes, required) == votes >= required
\* finishedCount >= requiredCount
hasEnoughFinished_strict(finished, required) == finished > required
hasEnoughFinished(finished, required) == finished >= required

\* the object handleMusicSkipRequest hands to updateMusicInfo
skipPayload(current, skipVotes, enough) ==
    IF enough /\ hasNext(current)
    THEN [set |-> {"currentSong", "queue", "progress", "state", "playTime",
                   "skipVotes", "finishedUsers"},
          unset |-> {},
          val |-> [BlankMusic EXCEPT !.currentSong = nextSong(current),
                                     !.queue = shifted(current),
                                     !.state = "playing",
                                     !.playTime = now]]
    ELSE IF enough
    THEN [set |-> {"progress", "state", "skipVotes"},
          unset |-> {"currentSong", "playTime"},
          val |-> BlankMusic]
    ELSE [set |-> current.keys \cup {"skipVotes"},
          unset |-> {},
          val |-> [current.val EXCEPT !.skipVotes = skipVotes]]

\* music_skip_request: getMusicInfo returns; the vote is counted against
\* the users online now
handleMusicSkipRequest_getMusicInfo(c) ==
    /\ MusicFrameArrives(c)
    /\ LET r == sock[c].chatId
           userId == sock[c].userId
           current == getMusicInfo(r)
           stored == IF "skipVotes" \in current.keys THEN current.val.skipVotes
                     ELSE <<>>
           skipVotes == Append(stored, userId)
           onlineCount == Cardinality(getOnlineUsersInRoom(rooms[r]))
           enough == hasEnoughVotes(Len(skipVotes), requiredVotes(onlineCount))
       IN IF ~current.exists \/ \E i \in 1..Len(stored) : stored[i] = userId
          THEN MusicDone(c)
          ELSE MusicTask(c, IF enough /\ hasNext(current) THEN "skip_next"
                            ELSE IF enough THEN "skip_empty" ELSE "skip_vote",
                         NoSong, current, Len(skipVotes),
                         skipPayload(current, skipVotes, enough))
    /\ sent' = <<>>
    /\ UNCHANGED <<musicFrame, music>>

\* updateMusicInfo returns: the broadcasts of an advance, or on to getNickname
handleMusicSkipRequest_updateMusicInfo(c) ==
    /\ mtask[c].pc \in {"skip_next", "skip_empty", "skip_vote"}
    /\ MusicUpdated(c)
    /\ IF mtask[c].pc = "skip_next"
       THEN /\ sent' = toRoom(c, "music_set", mtask[c].payload.val.currentSong)
                       \o sendSystemMessage(c)
                       \o toRoom(c, "music_skip_result", sock[c].userId)
            /\ MusicDone(c)
       ELSE IF mtask[c].pc = "skip_empty"
       THEN /\ sent' = toRoom(c, "music_set", NoSong)
                       \o toRoom(c, "music_skip_result", sock[c].userId)
            /\ MusicDone(c)
       ELSE /\ sent' = <<>>
            /\ mtask' = [mtask EXCEPT ![c].pc = "skip_nick"]
    /\ UNCHANGED <<musicFrame, requests>>

\* below quorum: getNickname returns, the vote is announced
handleMusicSkipRequest_getNickname(c) ==
    /\ mtask[c].pc = "skip_nick"
    /\ sent' = sendSystemMessage(c) \o toRoom(c, "music_skip_result", sock[c].userId)
    /\ MusicDone(c)
    /\ UNCHANGED <<musicFrame, music, requests>>

\* the object handleMusicFinished hands to updateMusicInfo
finishedPayload(current, finishedSet, enough) ==
    IF enough /\ hasNext(current)
    THEN [set |-> {"currentSong", "queue", "progress", "state", "playTime",
                   "finishedUsers"},
          unset |-> {},
          val |-> [BlankMusic EXCEPT !.currentSong = nextSong(current),
                                     !.queue = shifted(current),
                                     !.state = "playing",
                                     !.playTime = now]]
    ELSE IF enough
    THEN [set |-> {"progress", "state", "queue", "skipVotes", "finishedUsers"},
          unset |-> {"currentSong", "playTime"},
          val |-> BlankMusic]
    ELSE [set |-> current.keys \cup {"finishedUsers"},
          unset |-> {},
          val |-> [current.val EXCEPT !.finishedUsers = finishedSet]]

\* music_finished: getMusicInfo returns; an advance to a queued song is
\* announced by a system message before the store is updated
handleMusicFinished_getMusicInfo(c) ==
    /\ MusicFrameArrives(c)
    /\ LET r == sock[c].chatId
           current == getMusicInfo(r)
           finishedUsers == IF "finishedUsers" \in current.keys
                            THEN current.val.finishedUsers ELSE {}
           finishedSet == finishedUsers \cup {sock[c].userId}
           onlineCount == Cardinality(getOnlineUsersInRoom(rooms[r]))
           enough == hasEnoughFinished(Cardinality(finishedSet),
                                       requiredCount(onlineCount))
       IN IF ~current.exists
          THEN MusicDone(c) /\ sent' = <<>>
          ELSE /\ MusicTask(c, IF enough /\ hasNext(current) THEN "finished_next"
                               ELSE IF enough THEN "finished_empty"
                               ELSE "finished_some",
                            NoSong, current, Cardinality(finishedSet),
                            finishedPayload(current, finishedSet, enough))
               /\ sent' = IF enough /\ hasNext(current) THEN sendSystemMessage(c)
                          ELSE <<>>
    /\ UNCHANGED <<musicFrame, music>>

handleMusicFinished_updateMusicInfo(c) ==
    /\ mtask[c].pc \in {"finished_next", "finished_empty", "finished_some"}
    /\ MusicUpdated(c)
    /\ sent' = IF mtask[c].pc = "finished_next"
               THEN toRoom(c, "music_set", mtask[c].payload.val.currentSong)
               ELSE IF mtask[c].pc = "finished_empty"
               THEN toRoom(c, "music_set", NoSong)
               ELSE <<>>
    /\ MusicDone(c)
    /\ UNCHANGED <<musicFrame, requests>>

\* the object handleAddSongRequest hands to updateMusicInfo
addPayload(current, song) ==
    IF ~current.exists
    THEN [set |-> {"currentSong", "progress", "state", "queue"},
          unset |-> {"playTime"},
          val |-> [BlankMusic EXCEPT !.currentSong = song]]
    ELSE [set |-> current.keys \cup {"queue"},
          unset |-> {},
          val |-> [current.val EXCEPT !.queue = Append(@, song)]]

\* music_add_queue: getMusicInfo returns
handleAddSongRequest_getMusicInfo(c, song) ==
    /\ MusicFrameArrives(c)
    /\ LET current == getMusicInfo(sock[c].chatId)
       IN /\ Len(current.val.queue) < MaxQueue
          /\ MusicTask(c, IF ~current.exists THEN "add_set" ELSE "add_queue",
                       song, current, 0, addPayload(current, song))
    /\ sent' = <<>>
    /\ UNCHANGED <<musicFrame, music>>

handleAddSongRequest_updateMusicInfo(c) ==
    /\ mtask[c].pc \in {"add_set", "add_queue"}
    /\ MusicUpdated(c)
    /\ sent' = IF mtask[c].pc = "add_set"
               THEN toRoom(c, "music_set", mtask[c].song)
               ELSE toRoom(c, "music_queue_update", mtask[c].song)
    /\ MusicDone(c)
    /\ UNCHANGED <<musicFrame, requests>>

\* the object handleMusicSet hands to updateMusicInfo
setPayload(song) ==
    [set |-> {"currentSong", "progress", "state"},
     unset |-> {"playTime"},
     val |-> [BlankMusic EXCEPT !.currentSong = song]]

\* if (existingMusicInfo)
pauseFirst_always(existingMusicInfo) == TRUE
pauseFirst(existingMusicInfo) == existingMusicInfo.exists

\* music_set: getMusicInfo returns; music_pause goes out if it is not null
handleMusicSet_getMusicInfo(c, song) ==
    /\ MusicFrameArrives(c)
    /\ LET existingMusicInfo == getMusicInfo(sock[c].chatId)
       IN /\ MusicTask(c, "set", song, existingMusicInfo, 0, setPayload(song))
          /\ sent' = IF pauseFirst(existingMusicInfo)
                     THEN toRoom(c, "music_pause", sock[c].userId)
                     ELSE <<>>
    /\ UNCHANGED <<musicFrame, music>>

handleMusicSet_updateMusicInfo(c) ==
    /\ mtask[c].pc = "set"
    /\ MusicUpdated(c)
    /\ sent' = toRoom(c, "music_set", mtask[c].song)
    /\ MusicDone(c)
    /\ UNCHANGED <<musicFrame, requests>>

NextMusic ==
    \/ \E c \in Conns : handleMusicSkipRequest_getMusicInfo(c)
    \/ \E c \in Conns : handleMusicSkipRequest_updateMusicInfo(c)
    \/ \E c \in Conns : handleMusicSkipRequest_getNickname(c)
    \/ \E c \in Conns : handleMusicFinished_getMusicInfo(c)
    \/ \E c \in Conns : handleMusicFinished_updateMusicInfo(c)
    \/ \E c \in Conns, song \in Songs : handleAddSongRequest_getMusicInfo(c, song)
    \/ \E c \in Conns : handleAddSongRequest_updateMusicInfo(c)
    \/ \E c \in Conns, song \in Songs : handleMusicSet_getMusicInfo(c, song)
    \/ \E c \in Conns : handleMusicSet_updateMusicInfo(c)
    \/ \E c \in Leavers : ClientClose(c)
    \/ \E c \in Leavers : handleDisconnect_getRoomInfo(c, "close", TRUE)

SpecMusic == InitMusic /\ [][NextMusic]_vars

\* ------------------------------------------- the stored history alone
\* Reactions, deletions and new messages on a room whose history holds two
\* messages, against either repository implementation.  The handlers of
\* different sockets run side by side; each repository call is a read of the
\* history followed, after an await, by its write.
TargetIds == {"m1", "m2"}
NewMessageId == "m3"
\* the user ids reaction frames carry (the handler takes them from the frame)
ReactionUsers == {"u1", "u2"}

Reaction(user_id, emoji) == [user_id |-> user_id, emoji |-> emoji]

\* the history as earlier frames left it, oldest first: m1, on which u2
\* reacted, then m2
StoredHistory ==
    <<[StoredMessage("m1") EXCEPT !.reactions = <<Reaction("u2", "A")>>],
      StoredMessage("m2")>>

InitHistory ==
    /\ backend \in Backends
    /\ room = [r \in RoomIds |-> createRoom([q \in RoomIds |-> NoRoom], r,
                                            DEFAULT_MAX_PARTICIPANTS)[r]]
    /\ participants = [r \in RoomIds |-> {"u1", "u2"}]
    /\ ghosts = [r \in RoomIds |-> {}]
    /\ bannedUsers = {}
    /\ bannedIps = {}
    /\ messages = [r \in RoomIds |->
                      IF backend = "redis" THEN Reverse(StoredHistory)
                      ELSE StoredHistory]
    /\ rooms = [r \in RoomIds |->
                   [u \in Users |-> {c \in Conns : <<c, u>> \in
                                        {<<"c1", "u1">>, <<"c2", "u2">>, <<"c3", "u1">>}}]]
    /\ socketToInfo = Conns
    /\ sock = [c \in Conns |-> Attached(IF c = "c2" THEN "u2" ELSE "u1")]
    /\ ftask = [c \in Conns |-> NoFrameTask]
    /\ dtask = [c \in Conns |-> NoTasks]
    /\ adminTask = [r \in RoomIds |-> "none"]
    /\ requests = 0
    /\ sends = 0
    /\ storeTask = "none"
    /\ pipe = [c \in Conns |-> <<>>]
    /\ limiter = [u \in Users |-> 0]
    /\ admitted = [u \in Users |-> 0]
    /\ arrival = NoSocket
    /\ music = [r \in RoomIds |-> NoMusic]
    /\ mtask = [c \in Conns |-> NoMusicTask]
    /\ now = StartTime
    /\ htask = [c \in Conns |-> NoHistoryTask]
    /\ unhandled = {}
    /\ theme = [r \in RoomIds |-> NoTheme]
    /\ ttask = [c \in Conns |-> NoThemeTask]
    /\ sent = <<>>

\* what a run on the history leaves alone
historyFrame == <<room, participants, ghosts, bannedUsers, bannedIps, registryVars,
                  sock, ftask, dtask, adminTask, backend, sends, storeTask,
                  listenerRunVars, musicRunVars, themeRunVars, unhandled>>

\* a frame arrives on an attached socket with no repository call in hand
HistoryFrameArrives(c) ==
    /\ sock[c].state = "OPEN"
    /\ Listening(c)
    /\ htask[c].pc = "none"
    /\ requests < MaxHistoryFrames
    /\ requests' = requests + 1

HistoryDone(c) == htask' = [htask EXCEPT ![c] = NoHistoryTask]

\* the first position of the list holding the message id, 0 if none
findMessage(raw, id) ==
    IF \E i \in 1..Len(raw) : raw[i].id = id
    THEN CHOOSE i \in 1..Len(raw) :
            raw[i].id = id /\ \A j \in 1..(i - 1) : raw[j].id # id
    ELSE 0

\* reps.findIndex((r) => r.user_id === reaction.user_id), 0 for -1
findIndex(reps, user_id) ==
    IF \E i \in 1..Len(reps) : reps[i].user_id = user_id
    THEN CHOOSE i \in 1..Len(reps) :
            reps[i].user_id = user_id /\ \A j \in 1..(i - 1) : reps[j].user_id # user_id
    ELSE 0

\* updateReaction that adds the reaction whenever it has an emoji
updatedReactions_append(reps, reaction) ==
    IF reaction.emoji # NoEmoji THEN Append(reps, reaction) ELSE reps

\* updateReaction: the reactions array written back (the SQL function
\* update_message_reaction quoted in supabase-impl.ts computes the same)
updatedReactions(reps, reaction) ==
    LET existing == findIndex(reps, reaction.user_id)
    IN IF existing > 0
       THEN IF reaction.emoji # NoEmoji
            THEN [reps EXCEPT ![existing] = reaction]
            ELSE RemoveAt(reps, existing)
       ELSE IF reaction.emoji # NoEmoji
            THEN Append(reps, reaction)
            ELSE reps

\* redis LSET key idx value: an index outside the list is an error
lset(list, idx, msg) ==
    IF idx \in 1..Len(list) THEN [list EXCEPT ![idx] = msg] ELSE list

\* UPDATE messages SET reactions = v_reactions WHERE id = p_message_id
updateReactionsRow(rows, id, reactions) ==
    [i \in 1..Len(rows) |->
        IF rows[i].id = id THEN [rows[i] EXCEPT !.reactions = reactions] ELSE rows[i]]

\* supabase markMessageAsDeleted: update({type: "deleted", content: null})
markDeletedRow(rows, id) ==
    [i \in 1..Len(rows) |->
        IF rows[i].id = id
        THEN [rows[i] EXCEPT !.type = "deleted", !.content = NoContent]
        ELSE rows[i]]

\* the packets a handler broadcasts to the rest of the room
toOthers(c, type, about) ==
    Packets(broadcastToRoom(rooms[sock[c].chatId], c), type, about, NoBody)

\* reaction frame: updateReaction reads the history (LRANGE, or the SELECT
\* of the SQL function).  The redis implementation returns false when no
\* entry has the id, and handleReaction broadcasts.
updateReaction_read(c, id, user_id, emoji) ==
    /\ HistoryFrameArrives(c)
    /\ LET raw == messages[sock[c].chatId]
           idx == findMessage(raw, id)
           reps == IF idx = 0 THEN <<>> ELSE raw[idx].reactions
           msg == [IF idx = 0 THEN StoredMessage(id) ELSE raw[idx]
                      EXCEPT !.reactions = updatedReactions(reps, Reaction(user_id, emoji))]
       IN IF backend = "redis" /\ idx = 0
          THEN /\ HistoryDone(c)
               /\ sent' = toOthers(c, "reaction", emoji)
          ELSE /\ htask' = [htask EXCEPT ![c] =
                               [pc |-> "reaction_write", id |-> id, user_id |-> user_id,
                                emoji |-> emoji, raw |-> raw, idx |-> idx, msg |-> msg]]
               /\ sent' = <<>>
    /\ UNCHANGED <<historyFrame, messages>>

\* updateReaction writes (LSET at the index read, or the UPDATE by id) and
\* handleReaction broadcasts the reaction to the rest of the room
updateReaction_write(c) ==
    /\ htask[c].pc = "reaction_write"
    /\ messages' = [messages EXCEPT ![sock[c].chatId] =
                       IF backend = "redis" THEN lset(@, htask[c].idx, htask[c].msg)
                       ELSE updateReactionsRow(@, htask[c].id, htask[c].msg.reactions)]
    /\ sent' = toOthers(c, "reaction", htask[c].emoji)
    /\ HistoryDone(c)
    /\ UNCHANGED <<historyFrame, requests>>

\* message_delete frame, redis: markMessageAsDeleted reads the list
markMessageAsDeleted_lrange(c, id) ==
    /\ backend = "redis"
    /\ HistoryFrameArrives(c)
    /\ LET raw == messages[sock[c].chatId]
           idx == findMessage(raw, id)
       IN IF idx = 0
          THEN /\ HistoryDone(c)
               /\ sent' = toOthers(c, "message_delete", id)
          ELSE /\ htask' = [htask EXCEPT ![c] =
                               [pc |-> "delete_write", id |-> id, user_id |-> "",
                                emoji |-> NoEmoji, raw |-> raw, idx |-> idx,
                                msg |-> [raw[idx] EXCEPT !.type = "deleted"]]]
               /\ sent' = <<>>
    /\ UNCHANGED <<historyFrame, messages>>

\* redis: LSET at the index read; handleDeleteMessage broadcasts
markMessageAsDeleted_lset(c) ==
    /\ htask[c].pc = "delete_write"
    /\ messages' = [messages EXCEPT ![sock[c].chatId] =
                       lset(@, htask[c].idx, htask[c].msg)]
    /\ sent' = toOthers(c, "message_delete", htask[c].id)
    /\ HistoryDone(c)
    /\ UNCHANGED <<historyFrame, requests>>

\* message_delete frame, supabase: one UPDATE; handleDeleteMessage broadcasts
markMessageAsDeleted_update(c, id) ==
    /\ backend = "supabase"
    /\ HistoryFrameArrives(c)
    /\ messages' = [messages EXCEPT ![sock[c].chatId] = markDeletedRow(@, id)]
    /\ sent' = toOthers(c, "message_delete", id)
    /\ UNCHANGED <<historyFrame, htask>>

\* message frame carrying a senderNickname: addMessage (LPUSH and an LTRIM
\* that cuts nothing from so short a list, or the INSERT), then the
\* acknowledgment and the broadcast
history_addMessage(c) ==
    /\ HistoryFrameArrives(c)
    /\ messages' = [messages EXCEPT ![sock[c].chatId] =
                       IF backend = "redis"
                       THEN ltrim(lpush(@, StoredMessage(NewMessageId)), LTRIM_STOP)
                       ELSE supabaseAddMessage(@, sock[c].chatId,
                                               StoredMessage(NewMessageId))]
    /\ sent' = sendTo(c, "message_acknowledgment", NewMessageId, NoBody)
               \o toOthers(c, "message", NewMessageId)
    /\ UNCHANGED <<historyFrame, htask>>

NextHistory ==
    \/ \E c \in FrameSenders, id \in TargetIds, u \in ReactionUsers,
          e \in Emojis \cup {NoEmoji} : updateReaction_read(c, id, u, e)
    \/ \E c \in FrameSenders : updateReaction_write(c)
    \/ \E c \in FrameSenders, id \in TargetIds : markMessageAsDeleted_lrange(c, id)
    \/ \E c \in FrameSenders : markMessageAsDeleted_lset(c)
    \/ \E c \in FrameSenders, id \in TargetIds : markMessageAsDeleted_update(c, id)
    \/ \E c \in FrameSenders : history_addMessage(c)

SpecHistory == InitHistory /\ [][NextHistory]_vars

\* --------------------------------------------- failures in the handlers
\* The listener's try block covers JSON.parse, the ban lookup and the call of
\* the handler; the handler is an async function whose promise the listener
\* drops.
\* the frame types whose handler reads a property of the frame's content
ContentReaders == {"message", "reaction", "edit_message"}

\* a frame that is not JSON: JSON.parse throws inside the try block and the
\* catch block answers with an error packet
listener_parseError(c) ==
    /\ HistoryFrameArrives(c)
    /\ sent' = sendTo(c, "error", "invalid format", NoBody)
    /\ UNCHANGED <<historyFrame, htask, messages>>

\* a frame of valid JSON without content: the handler throws a TypeError at
\* its first read of the content, which rejects the promise it returned
handler_throws(c, type) ==
    /\ HistoryFrameArrives(c)
    /\ unhandled' = unhandled \cup {<<c, type>>}
    /\ sent' = <<>>
    /\ UNCHANGED <<room, participants, ghosts, bannedUsers, bannedIps,
                   registryVars, sock, ftask, dtask, adminTask, backend, sends,
                   storeTask, listenerRunVars, musicRunVars, themeRunVars,
                   htask, messages>>

\* the redis client rejects the command a handler awaits: the handler's
\* promise is rejected at the await
store_rejects(c) ==
    /\ backend = "redis"
    /\ htask[c].pc # "none"
    /\ HistoryDone(c)
    /\ unhandled' = unhandled \cup {<<c, htask[c].pc>>}
    /\ sent' = <<>>
    /\ UNCHANGED <<room, participants, ghosts, bannedUsers, bannedIps,
                   registryVars, sock, ftask, dtask, adminTask, backend, sends,
                   storeTask, listenerRunVars, musicRunVars, themeRunVars,
                   requests, messages>>

\* the runtime reports the rejections nobody handled: it logs them and goes
\* on, or it ends the process, and with it every connection and the
\* in-memory registry
runtime_unhandledRejection(exits) ==
    /\ unhandled # {}
    /\ unhandled' = {}
    /\ sent' = <<>>
    /\ IF exits
       THEN /\ sock' = [c \in Conns |-> [sock[c] EXCEPT !.state = "CLOSED"]]
            /\ rooms' = [r \in RoomIds |-> NoUsers]
            /\ socketToInfo' = {}
            /\ htask' = [c \in Conns |-> NoHistoryTask]
       ELSE UNCHANGED <<sock, registryVars, htask>>
    /\ UNCHANGED <<storeVars, ftask, dtask, adminTask, backend, sends, storeTask,
                   listenerRunVars, musicRunVars, themeRunVars, requests>>

NextContained ==
    \/ NextHistory
    \/ \E c \in FrameSenders : listener_parseError(c)
    \/ \E c \in FrameSenders, type \in ContentReaders : handler_throws(c, type)
    \/ \E c \in FrameSenders : store_rejects(c)
    \/ \E exits \in BOOLEAN : runtime_unhandledRejection(exits)

SpecContained == InitHistory /\ [][NextContained]_vars

\* ------------------------------------------------ the theme handler alone
\* A group room with u1 and u2 attached; u3 may connect on c3 and leave.
\* change_theme frames of the attached sockets are handled side by side.
InitTheme ==
    /\ backend = "supabase"
    /\ room = [r \in RoomIds |-> GroupRoom]
    /\ participants = [r \in RoomIds |-> {"u1", "u2"}]
    /\ ghosts = [r \in RoomIds |-> {}]
    /\ bannedUsers = {}
    /\ bannedIps = {}
    /\ messages = [r \in RoomIds |-> <<>>]
    /\ rooms = [r \in RoomIds |->
                   [u \in Users |-> {c \in {"c1", "c2"} : UserOf(c) = u}]]
    /\ socketToInfo = {"c1", "c2"}
    /\ sock = [c \in Conns |-> IF c = "c3" THEN NewSock ELSE Attached(UserOf(c))]
    /\ ftask = [c \in Conns |-> NoFrameTask]
    /\ dtask = [c \in Conns |-> NoTasks]
    /\ adminTask = [r \in RoomIds |-> "none"]
    /\ requests = 0
    /\ sends = 0
    /\ storeTask = "none"
    /\ pipe = [c \in Conns |-> <<>>]
    /\ limiter = [u \in Users |-> 0]
    /\ admitted = [u \in Users |-> 0]
    /\ arrival = NoSocket
    /\ music = [r \in RoomIds |-> NoMusic]
    /\ mtask = [c \in Conns |-> NoMusicTask]
    /\ now = StartTime
    /\ htask = [c \in Conns |-> NoHistoryTask]
    /\ unhandled = {}
    /\ theme = [r \in RoomIds |-> NoTheme]
    /\ ttask = [c \in Conns |-> NoThemeTask]
    /\ sent = <<>>

\* what the theme handler leaves alone
themeFrame == <<storeVars, registryVars, sock, ftask, dtask, adminTask, backend,
                sends, storeTask, listenerRunVars, musicRunVars, historyRunVars>>

\* setTheme: UPDATE rooms SET theme, mode WHERE id; no row, no update
setTheme(th, r, content) ==
    IF room[r].exists THEN [th EXCEPT ![r] = content] ELSE th

\* getTheme: the columns of the row
getTheme(r) == IF room[r].exists THEN theme[r] ELSE NoTheme

\* a change_theme frame arrives: handleChangeTheme calls setTheme, whose
\* update reaches the store, and awaits it
handleChangeTheme_setTheme(c, content) ==
    /\ sock[c].state = "OPEN"
    /\ Listening(c)
    /\ ttask[c].pc = "none"
    /\ requests < MaxThemeFrames
    /\ requests' = requests + 1
    /\ theme' = setTheme(theme, sock[c].chatId, content)
    /\ ttask' = [ttask EXCEPT ![c] = [pc |-> "setTheme", content |-> content]]
    /\ sent' = <<>>
    /\ UNCHANGED themeFrame

\* the sockets handleChangeTheme broadcasts to
themeTargets_all(reg, ws) == broadcastToRoom(reg, NoSocket)
themeTargets(reg, ws) == broadcastToRoom(reg, ws)

\* setTheme has returned: theme_change goes to the rest of the room
handleChangeTheme_broadcast(c) ==
    /\ ttask[c].pc = "setTheme"
    /\ sent' = Packets(themeTargets(rooms[sock[c].chatId], c), "theme_change",
                       ttask[c].content, NoBody)
    /\ ttask' = [ttask EXCEPT ![c] = NoThemeTask]
    /\ UNCHANGED <<themeFrame, theme, requests>>

NextTheme ==
    \/ \E c \in Conns, content \in Themes : handleChangeTheme_setTheme(c, content)
    \/ \E c \in Conns : handleChangeTheme_broadcast(c)
    \/ \E c \in Leavers : onConnection(c, "r", UserOf(c), TRUE)
    \/ \E c \in Leavers : handleUserConnected_isUserBanned(c)
    \/ \E c \in Leavers : handleUserConnected_isGhostMode(c, TRUE)
    \/ \E c \in Leavers : handleUserConnected_containsParticipant(c)
    \/ \E c \in Leavers : handleUserConnected_addParticipant(c)
    \/ \E c \in Leavers : handleUserConnected_getNickname(c)
    \/ \E c \in Leavers : ClientClose(c)
    \/ \E c \in Leavers : handleDisconnect_getRoomInfo(c, "close", TRUE)

SpecTheme == InitTheme /\ [][NextTheme]_vars

\* ----------------------------------------------------------- properties
TheRoom == "r"

Online == getOnlineUsersInRoom(rooms[TheRoom])

Registered(c) == c \in socketToInfo \/ c \in getSocketsInRoom(rooms[TheRoom])

\* the packets of a type among those a step wrote
PacketsOf(s, type) == {i \in 1..Len(s) : s[i].type = type}

PacketsAbout(s, type, about) ==
    {i \in PacketsOf(s, type) : s[i].about = about}

\* the step in which the admission task of c passes position pc
Passes(c, pc) == sock[c].pc = pc /\ sock'[c].pc # pc

\* a rejected attempt stays rejected and outside the registry
RejectedForGood(c) ==
    sock[c].pc = "rejected" =>
        /\ sock'[c].pc = "rejected"
        /\ c \notin socketToInfo'
        /\ c \notin getSocketsInRoom(rooms'[TheRoom])

\* C1: participant_joined naming U is broadcast only by an attach that took
\* U's live-connection count in the room from 0 to 1; an attach of a further
\* simultaneous connection of U broadcasts none.
C1_JoinedOnlyOnFirstConnection ==
    [][\A c \in Conns :
          (Passes(c, "announce")
           /\ PacketsAbout(sent', "participant_joined", sock[c].userId) # {})
          => sock[c].prevCount = 0]_vars

\* C2: the offline broadcasts naming U are exactly the drops of U's
\* live-connection count from N > 0 to 0: a step that broadcasts offline for U
\* is such a drop, and a disconnect that is such a drop (with somebody left
\* to tell) broadcasts offline once.
C2_OfflineExactlyOnLastDisconnect ==
    [][\A u \in Users :
          LET drop == /\ SocketCount(rooms[TheRoom], u) > 0
                      /\ SocketCount(rooms'[TheRoom], u) = 0
              offs == Cardinality(PacketsAbout(sent', "offline", u))
              told == {s \in getSocketsInRoom(rooms'[TheRoom]) : sock[s].state = "OPEN"}
          IN /\ offs > 0 => drop
             /\ (drop /\ dtask' # dtask /\ told # {}) => offs = 1]_vars

\* C3: in a room of capacity 2 with two distinct non-ghost users online, the
\* attempt of a third distinct non-ghost user is closed with the room-full
\* code, is never added to the registry and creates no participant record.
C3_ThirdUserRejected ==
    [][\A c \in Conns :
          /\ (/\ Passes(c, "admit")
              /\ room[TheRoom].exists
              /\ room[TheRoom].max = 2
              /\ Cardinality(Online) = 2
              /\ sock[c].userId \notin Online
              /\ (Online \cup {sock[c].userId}) \cap ghosts[TheRoom] = {})
             => /\ sock'[c].pc = "rejected"
                /\ sock'[c].state = "CLOSING"
                /\ sock'[c].code = ROOM_FULL_CODE
                /\ UNCHANGED <<rooms, socketToInfo, participants>>
          /\ RejectedForGood(c)]_vars

C3_Witness ==
    /\ sock["c3"].pc = "rejected"
    /\ sock["c3"].code = ROOM_FULL_CODE
    /\ sock["c3"].userId = "u3"
    /\ room[TheRoom].exists
    /\ room[TheRoom].max = 2
    /\ Online = {"u1", "u2"}
    /\ ghosts[TheRoom] = {}
    /\ ~Registered("c3")
    /\ "u3" \notin participants[TheRoom]

\* C4: at capacity (online distinct users = maxParticipants), the attempt of
\* a user id that is already online passes the capacity test with its socket
\* open, and every admitted attempt goes on to be registered.
C4_OnlineUserAdmittedAtCapacity ==
    [][\A c \in Conns :
          /\ (/\ Passes(c, "admit")
              /\ room[TheRoom].exists
              /\ Cardinality(Online) = room[TheRoom].max
              /\ sock[c].userId \in Online)
             => /\ sock'[c].pc = "contains"
                /\ sock'[c].state = "OPEN"
                /\ sock'[c].code = NoCode
          /\ Passes(c, "contains")
             => \/ sock'[c].pc = "addPart"
                \/ sock'[c].pc = "announce" /\ c \in rooms'[TheRoom][sock[c].userId]
          /\ Passes(c, "addPart")
             => sock'[c].pc = "announce" /\ c \in rooms'[TheRoom][sock[c].userId]]_vars

C4_Witness ==
    /\ sock["c3"].pc = "announce"
    /\ sock["c3"].userId = "u1"
    /\ sock["c3"].atCapacity
    /\ sock["c3"].state = "OPEN"
    /\ sock["c3"].prevCount > 0
    /\ "c3" \in rooms[TheRoom]["u1"]
    /\ room[TheRoom].exists
    /\ room[TheRoom].max = 2

\* the step in which a handleDisconnect task of c returns from deleteRoom
Deletes(c, ev) == dtask[c][ev] = "delete" /\ dtask'[c][ev] = "none"

\* C5: disconnect handling deletes a pair room (capacity 2) only if, at that
\* moment, the room has no online users and its closed flag was set by a
\* disconnect packet.
C5_PairRoomDeletedOnlyIfClosed ==
    [][\A c \in Conns, ev \in Events :
          (/\ Deletes(c, ev)
           /\ room[TheRoom].exists
           /\ room[TheRoom].max = 2
           /\ ~room'[TheRoom].exists)
          => Online = {} /\ room[TheRoom].closed]_vars

\* C6: disconnect handling never deletes a room of capacity > 2, whatever
\* the room-info lookup returned.
C6_GroupRoomNeverDeleted ==
    [][\A c \in Conns, ev \in Events :
          (/\ Deletes(c, ev)
           /\ room[TheRoom].exists
           /\ room[TheRoom].max > 2)
          => room'[TheRoom].exists]_vars

\* C7: an attempt whose (room, user) is user-banned or whose address is
\* ip-banned when the ban lookup is made is closed with the banned code,
\* changes neither the registry nor the participant records, broadcasts no
\* participant_joined, and stays outside the registry for good.
C7_BannedRejected ==
    [][\A c \in Conns :
          /\ (/\ Passes(c, "ban")
              /\ \/ <<TheRoom, sock[c].userId>> \in bannedUsers
                 \/ sock[c].ipAddress \in bannedIps)
             => /\ sock'[c].pc = "rejected"
                /\ sock'[c].state = "CLOSING"
                /\ sock'[c].code = BANNED_ROOM_CODE
                /\ UNCHANGED <<rooms, socketToInfo, participants>>
                /\ PacketsOf(sent', "participant_joined") = {}
          /\ RejectedForGood(c)]_vars

C7_Witness ==
    /\ sock["c3"].pc = "rejected"
    /\ sock["c3"].code = BANNED_ROOM_CODE
    /\ sock["c3"].userId = "u3"
    /\ sock["c3"].ipAddress \in bannedIps
    /\ <<TheRoom, "u3">> \notin bannedUsers
    /\ ~Registered("c3")
    /\ "u3" \notin participants[TheRoom]

\* C8: a rejected attempt (missing address, banned, room full) has changed
\* nothing: it created no room row and is in no registry map.
C8_RejectionChangesNothing ==
    \A c \in Conns :
        sock[c].pc = "rejected" => ~sock[c].created /\ ~Registered(c)

\* C9: after any number of sequential sends the store retains at most 100
\* messages, and they are the most recently added ones, oldest first.
C9_RetainsLatestHundred ==
    storeTask = "none" =>
        LET kept == Min(sends, LTRIM_STOP + 1)
        IN /\ getMessageCount(TheRoom) <= LTRIM_STOP + 1
           /\ getMessages(TheRoom) = [i \in 1..kept |-> Message(sends - kept + i)]

\* the step in which handleSendMessage returns for the frame c sent
Handles(c) == ftask[c].pc = "add" /\ ftask'[c].pc = "none"

\* the other open connections of the room
Others(c) ==
    {s \in getSocketsInRoom(rooms[TheRoom]) : s # c /\ sock[s].state = "OPEN"}

\* exactly one acknowledgment, first, to the sender only, with the id
AckFirst(c, id) ==
    /\ Len(sent') >= 1
    /\ PacketsOf(sent', "message_acknowledgment") = {1}
    /\ sent'[1].to = {c}
    /\ sent'[1].about = id

\* then one message packet to the others only, if there are any
ThenMessage(c, id) ==
    IF Others(c) = {} THEN Len(sent') = 1
    ELSE /\ Len(sent') = 2
         /\ sent'[2].type = "message"
         /\ sent'[2].about = id
         /\ sent'[2].to = Others(c)

Completes(c, i) == i \in 1..Len(pipe[c]) /\ pipe'[c] = RemoveAt(pipe[c], i)

\* the positions of a frame whose handler has been called and has not yet
\* written to the store or broadcast
Dispatched == {"nick", "add", "edit"}

\* C11: of two frames received on one connection, every store write and
\* broadcast of the first happens before any of the second: a handler
\* writes and broadcasts only when no earlier frame of the connection has a
\* handler still on its way to its write.
C11_FramesHandledInOrder ==
    [][\A c \in Conns :
          Len(pipe'[c]) < Len(pipe[c]) =>
             \E k \in 1..Len(pipe[c]) :
                /\ Completes(c, k)
                /\ pipe[c][k].pc \in {"add", "edit"} =>
                      \A j \in 1..(k - 1) : pipe[c][j].pc \notin Dispatched]_vars

\* a frame dropped by the limiter: nothing but one error packet to its socket
Dropped(c) ==
    /\ pipe' = pipe
    /\ messages' = messages
    /\ sock' = sock
    /\ sock[c].state = "OPEN"
    /\ rooms' = rooms /\ socketToInfo' = socketToInfo
    /\ c \in socketToInfo /\ c \in getSocketsInRoom(rooms[TheRoom])
    /\ sent' = <<[to |-> {c}, type |-> "error", about |-> "Rate limit exceeded",
                  body |-> NoBody]>>

\* C12: in one window of the limiter at most 5 frames of a user, over all
\* the user's connections, get past the limiter; a frame over the quota
\* changes nothing in the store, is not broadcast, is answered by exactly
\* one error packet to its own socket, and leaves the socket open and
\* registered.
C12_RateLimitedFrameDropped ==
    [][requests' = requests + 1 =>
          LET c == arrival'
              u == sock[c].userId
          IN /\ admitted'[u] <= RATE_LIMIT_POINTS
             /\ admitted[u] >= RATE_LIMIT_POINTS => Dropped(c)]_vars

C12_Witness ==
    /\ admitted["u1"] = RATE_LIMIT_POINTS
    /\ arrival = "c3"
    /\ Len(sent) = 1
    /\ sent[1].about = "Rate limit exceeded"
    /\ sent[1].to = {"c3"}
    /\ pipe["c1"] # <<>>
    /\ sock["c3"].state = "OPEN"

\* the step in which the listener of the i-th frame in hand of socket c has
\* the answer of isIpBanned
LeavesBan(c, i) ==
    /\ i \in 1..Len(pipe[c])
    /\ pipe[c][i].pc = "ban"
    /\ \/ pipe'[c] = RemoveAt(pipe[c], i)
       \/ /\ Len(pipe'[c]) = Len(pipe[c])
          /\ pipe'[c][i].pc # "ban"

\* C13: once the address of a live connection is banned, the next frame the
\* listener looks up is not handed to a handler and not broadcast, and the
\* connection is closed, without any reconnect.
C13_BanTakesEffectOnNextFrame ==
    [][\A c \in Conns : \A i \in 1..Len(pipe[c]) :
          (LeavesBan(c, i) /\ sock[c].ipAddress \in bannedIps) =>
             /\ pipe'[c] = RemoveAt(pipe[c], i)
             /\ messages' = messages
             /\ \A k \in 1..Len(sent') : sent'[k].to \subseteq {c}
             /\ sock'[c].state \in {"CLOSING", "CLOSED"}
             /\ sock[c].state = "OPEN" => sock'[c].code = BAD_REQUEST_CODE]_vars

C13_Witness ==
    /\ sock["c1"].pc = "attached"
    /\ sock["c1"].state = "CLOSING"
    /\ sock["c1"].code = BAD_REQUEST_CODE
    /\ sock["c1"].ipAddress \in bannedIps
    /\ messages[TheRoom] # <<>>
    /\ Len(sent) = 1
    /\ sent[1].to = {"c1"}
    /\ sent[1].about = "banned"

\* C20: an edit_message whose id is not among the stored messages changes
\* nothing in the store and causes no edit_message broadcast.
C20_EditOfUnknownIdIsNoOp ==
    [][\A c \in Conns : \A i \in 1..Len(pipe[c]) :
          (/\ pipe[c][i].pc = "edit"
           /\ Completes(c, i)
           /\ \A k \in 1..Len(messages[TheRoom]) :
                 messages[TheRoom][k].id # pipe[c][i].frame.id) =>
             /\ messages' = messages
             /\ PacketsOf(sent', "edit_message") = {}]_vars

\* -------------------------------------------------------------- ghost mode
\* C18: ghost users do not occupy capacity: the capacity test never turns a
\* ghost user away, and it turns a non-ghost user away only when the online
\* users that are not ghosts are at least max_participants.
C18_GhostsOccupyNoCapacity ==
    [][\A c \in Conns :
          (Passes(c, "admit") /\ sock'[c].code = ROOM_FULL_CODE) =>
             LET r == sock[c].chatId
                 capacity == maxParticipantsOf(getRoomInfo(r, TRUE))
             IN /\ sock[c].userId \notin ghosts[r]
                /\ Cardinality(getOnlineUsersInRoom(rooms[r]) \ ghosts[r]) >= capacity]_vars

\* C19: no participant_joined and no offline packet names a user whose ghost
\* flag is set in the room.
C19_GhostsAreNotAnnounced ==
    [][\A k \in 1..Len(sent') :
          sent'[k].type \in {"participant_joined", "offline"} =>
             sent'[k].about \notin ghosts[TheRoom]]_vars

\* ------------------------------------------------------------------ music
\* what a music_info holds under a key, or the blank value without the key
songOf(info) == IF "currentSong" \in info.keys THEN info.val.currentSong ELSE NoSong
queueOf(info) == IF "queue" \in info.keys THEN info.val.queue ELSE <<>>
votesOf(info) == IF "skipVotes" \in info.keys THEN info.val.skipVotes ELSE <<>>
finishedOf(info) == IF "finishedUsers" \in info.keys THEN info.val.finishedUsers
                    ELSE {}
Voters(info) == {votesOf(info)[i] : i \in 1..Len(votesOf(info))}

\* the step in which the updateMusicInfo of c's handler returns
Writes(c, pcs) == mtask[c].pc \in pcs /\ mtask'[c].pc # mtask[c].pc

\* no other handler's write reached the store since c's handler read it
Unraced(c) == music[sock[c].chatId] = mtask[c].current

\* the song and the queue after an advance from the music_info `current`
Advanced(current, after) ==
    IF queueOf(current) # <<>>
    THEN songOf(after) = Head(queueOf(current)) /\ queueOf(after) = Tail(queueOf(current))
    ELSE songOf(after) = NoSong

C16_AddQueueSetsOrAppends ==
    [][\A c \in Conns :
          (Writes(c, {"add_set", "add_queue"}) /\ Unraced(c)) =>
             LET r == sock[c].chatId
                 current == mtask[c].current
                 S == mtask[c].song
             IN IF songOf(current) = NoSong
                THEN /\ songOf(music'[r]) = S
                     /\ PacketsAbout(sent', "music_set", S) # {}
                ELSE /\ queueOf(music'[r]) = Append(queueOf(current), S)
                     /\ songOf(music'[r]) = songOf(current)
                     /\ PacketsOf(sent', "music_queue_update") # {}]_vars

History == messages[TheRoom]

Retained(id) == \E i \in 1..Len(History) : History[i].id = id

\* the step in which the repository call of a message_delete frame for id
\* has been made and handleDeleteMessage broadcasts
DeleteApplied(id) == PacketsAbout(sent', "message_delete", id) # {}

\* C21: deleting a retained message leaves the room's list with the same
\* length and the same ids in the same order, the target marked "deleted"
\* and every other message as it was.
C21_DeleteIsSoft ==
    [][\A id \in TargetIds :
          (DeleteApplied(id) /\ Retained(id)) =>
             /\ Len(History') = Len(History)
             /\ \A i \in 1..Len(History) :
                   /\ History'[i].id = History[i].id
                   /\ History[i].id = id => History'[i].type = "deleted"
                   /\ History[i].id # id => History'[i] = History[i]]_vars

\* the positions of a reactions array that hold a reaction of the user
ReactionsBy(reps, user_id) == {k \in 1..Len(reps) : reps[k].user_id = user_id}

OthersReactions(reps, user_id) ==
    LET Other(x) == x.user_id # user_id IN SelectSeq(reps, Other)

\* the step in which c's updateReaction writes, the message it read being
\* still stored as it read it
ReactionLands(c) ==
    /\ htask[c].pc = "reaction_write"
    /\ htask'[c].pc = "none"
    /\ htask[c].idx > 0
    /\ \E i \in 1..Len(History) : History[i] = htask[c].raw[htask[c].idx]
    /\ \A i \in 1..Len(History) :
          History[i].id = htask[c].id => History[i] = htask[c].raw[htask[c].idx]

\* C23: a reaction of a user with an emoji leaves exactly that reaction of
\* the user on the message, and one with emoji null leaves none (so A, then
\* B, then null leaves none); either leaves the reactions of other users as
\* they were, and a removal when the user has no reaction changes nothing.
C23_ReactThenRemove ==
    [][\A c \in Conns :
          ReactionLands(c) =>
             LET id == htask[c].id
                 u == htask[c].user_id
                 e == htask[c].emoji
                 old == htask[c].raw[htask[c].idx]
             IN /\ \E i \in 1..Len(History') : History'[i].id = id
                /\ \A i \in 1..Len(History') :
                      History'[i].id = id =>
                         /\ OthersReactions(History'[i].reactions, u)
                               = OthersReactions(old.reactions, u)
                         /\ IF e = NoEmoji
                            THEN ReactionsBy(History'[i].reactions, u) = {}
                            ELSE \E k \in 1..Len(History'[i].reactions) :
                                    /\ ReactionsBy(History'[i].reactions, u) = {k}
                                    /\ History'[i].reactions[k].emoji = e
                /\ (e = NoEmoji /\ ReactionsBy(old.reactions, u) = {}) =>
                      History' = History]_vars


\* ------------------------------------------------------------------ theme
\* the registered sockets of the room that are open
OpenInRoom(r) ==
    {s \in Conns : sock[s].state = "OPEN" /\ \E u \in Users : s \in rooms[r][u]}

\* the theme_change packets a step wrote to socket s
ThemePacketsTo(s) ==
    {i \in PacketsOf(sent', "theme_change") : s \in sent'[i].to}

\* the step in which the change_theme handler of c starts, and the one in
\* which it broadcasts
ThemeStored(c) == ttask[c].pc = "none" /\ ttask'[c].pc = "setTheme"
ThemeBroadcast(c) == ttask[c].pc = "setTheme" /\ ttask'[c].pc = "none"

\* C24: a change_theme frame of c first updates the stored theme and mode,
\* writing no packet; then every other open socket of the room receives
\* exactly one theme_change carrying the frame's {mode, theme}, and c none.
C24_ThemeThenBroadcast ==
    [][\A c \in Conns :
         /\ ThemeStored(c) =>
              /\ theme'[sock[c].chatId] = ttask'[c].content
              /\ sent' = <<>>
         /\ ThemeBroadcast(c) =>
              /\ ThemePacketsTo(c) = {}
              /\ \A s \in OpenInRoom(sock[c].chatId) \ {c} :
                   /\ Cardinality(ThemePacketsTo(s)) = 1
                   /\ \A i \in ThemePacketsTo(s) :
                        sent'[i].about = ttask[c].content]_vars

\* a theme_change reached two other sockets, the late one among them, while
\* the sender's store update had been overwritten by another sender's
C24_Witness ==
    \E i \in 1..Len(sent) :
        /\ sent[i].type = "theme_change"
        /\ sent[i].to = {"c2", "c3"}
        /\ sent[i].about \in Themes
        /\ theme["r"] # sent[i].about

\* C25: a socket that becomes attached while a theme is stored has been
\* written the stored {mode, theme} during its admission.
C25_ThemeOnAttach ==
    [][\A c \in Conns :
         (Passes(c, "announce") /\ sock'[c].pc = "attached"
            /\ getTheme(sock[c].chatId) # NoTheme) =>
           \E i \in PacketsOf(sent', "theme_change") :
               /\ c \in sent'[i].to
               /\ sent'[i].about = getTheme(sock[c].chatId)]_vars

\* ---------------------------------------------------------------- goodbye
\* the disconnect packet of c has been taken up and its handler has not yet
\* returned from markClosed
SayingGoodbye(c) == ftask[c].pc \in {"dinfo", "mark"}

\* C26: in a pair room whose only online user has sent a disconnect packet
\* and whose connection then closes, the room is marked closed and deleted:
\* the deletion by the closed connection's handler finds the room marked.
C26_GoodbyeClosesThenDeletes ==
    [][\A c \in Conns, ev \in Events :
          (/\ Deletes(c, ev)
           /\ room[TheRoom].exists
           /\ room[TheRoom].max = 2
           /\ Online = {}
           /\ SayingGoodbye(c) \/ room[TheRoom].closed)
          => room[TheRoom].closed]_vars

\* ------------------------------------------------------------ close codes
\* the step in which the server closes socket c because of a ban: the user
\* ban found at admission, or the address ban found on a frame
BanClose(c) ==
    /\ sock[c].state = "OPEN"
    /\ sock'[c].state = "CLOSING"
    /\ sock'[c].code # NoCode
    /\ \/ sock[c].pc = "ban"
       \/ Listening(c) /\ repoIsIpBanned(sock[c].chatId, sock[c].ipAddress)

\* C27: a connection closed because of a ban, at admission or on a later
\* frame, gets a code that is neither the bad-request code nor the room-full
\* code, and these two differ.
C27_CloseCodesDistinct ==
    [][\A c \in Conns :
          BanClose(c) =>
             /\ sock'[c].code \notin {BAD_REQUEST_CODE, ROOM_FULL_CODE}
             /\ ROOM_FULL_CODE # BAD_REQUEST_CODE]_vars

\* ------------------------------------------------------------ auto-create
\* C28: a connection attempt creates a room only where none is stored, the
\* room it creates has capacity 2, and no step changes the capacity of a
\* room that exists.
C28_AutoCreatePairOnly ==
    [][\A r \in RoomIds :
          /\ (~room[r].exists /\ room'[r].exists) =>
                /\ room'[r].max = 2
                /\ \E c \in Conns : Passes(c, "create") /\ sock[c].chatId = r
          /\ (room[r].exists /\ room'[r].exists) => room'[r].max = room[r].max
          /\ \A c \in Conns :
                (Passes(c, "create") /\ sock[c].chatId = r /\ room[r].exists)
                   => room'[r] = room[r] /\ ~sock'[c].created]_vars

\* c1 created the pair room; c3, which had found no room either, is about
\* to call createRoom on the room that now exists
C28_Witness ==
    /\ sock["c1"].created
    /\ sock["c1"].pc = "ban"
    /\ sock["c3"].pc = "create"
    /\ sock["c3"].state = "OPEN"
    /\ room[TheRoom].exists
    /\ room[TheRoom].max = 2

\* ------------------------------------------------------------ containment
\* the step in which the handling of a frame of c fails: the listener
\* answers a frame it could not parse, or a handler's promise is rejected
FrameFails(c) ==
    \/ \E i \in PacketsAbout(sent', "error", "invalid format") : c \in sent'[i].to
    \/ \E t \in unhandled' \ unhandled : t[1] = c

\* C29: a failure while a message, reaction, edit or delete frame is handled
\* stays within the frame's handling: no rejection is left unhandled, the
\* connection stays open and registered, and no other connection is closed.
C29_FailuresContained ==
    [][/\ \A c \in Conns :
            FrameFails(c) =>
               /\ unhandled' = unhandled
               /\ sock' = sock
               /\ registryVars' = registryVars
       /\ \A c \in Conns : sock[c].state = "OPEN" => sock'[c].state = "OPEN"]_vars

\* ------------------------------------------------------------------ sends
\* C30: every packet a step sends (broadcast, acknowledgment, error packet,
\* music sync) goes to a connection that is open when the step sends it, also
\* when the connection closed while the sending handler was suspended.
C30_SendsOnlyToOpen ==
    [][\A i \in 1..Len(sent') : \A s \in sent'[i].to :
          sock[s].state = "OPEN"]_vars

\* ------------------------------------------------- votes across an advance
\* C37: when a quorum advance, by skip votes or by finished reports, changes
\* the current song, the skipVotes and the finishedUsers stored for the room
\* are both empty right after it.
C37_AdvanceClearsVotes ==
    [][\A c \in Conns :
          (/\ Writes(c, {"skip_next", "skip_empty", "finished_next",
                         "finished_empty"})
           /\ Unraced(c)
           /\ songOf(music'[sock[c].chatId]) # songOf(music[sock[c].chatId])) =>
             /\ votesOf(music'[sock[c].chatId]) = <<>>
             /\ finishedOf(music'[sock[c].chatId]) = {}]_vars

\* C36: when skip votes (or finished reports) of distinct users are handled
\* side by side and none reaches the quorum, the write of one handler keeps
\* the votes the other has stored: both are in the stored set afterwards.
C36_NoVoteLost ==
    [][\A c \in Conns :
          LET r == sock[c].chatId
          IN /\ Writes(c, {"skip_vote"}) =>
                   Voters(music[r]) \cup {sock[c].userId} \subseteq Voters(music'[r])
             /\ Writes(c, {"finished_some"}) =>
                   finishedOf(music[r]) \cup {sock[c].userId}
                      \subseteq finishedOf(music'[r])]_vars

\* ------------------------------------------------------- play and the song
\* the playback positions, in seconds, a music_play frame may report
Positions == {0, 3}

\* the object handleMusicPlay hands to updateMusicInfo
playPayload(currentTime) ==
    [set |-> {"state", "progress", "playTime"},
     unset |-> {},
     val |-> [BlankMusic EXCEPT !.state = "playing", !.progress = currentTime,
                                !.playTime = now]]

\* music_play: updateMusicInfo is called and not awaited, the frame goes to
\* the room at once
handleMusicPlay(c, currentTime) ==
    /\ MusicFrameArrives(c)
    /\ MusicTask(c, "play", NoSong, NoMusic, 0, playPayload(currentTime))
    /\ sent' = toRoom(c, "music_play", sock[c].userId)
    /\ UNCHANGED <<musicFrame, music>>

\* the update handleMusicPlay did not wait for reaches the store
handleMusicPlay_updateMusicInfo(c) ==
    /\ mtask[c].pc = "play"
    /\ MusicUpdated(c)
    /\ sent' = <<>>
    /\ MusicDone(c)
    /\ UNCHANGED <<musicFrame, requests>>

NextPlay ==
    \/ NextMusic
    \/ \E c \in Conns, t \in Positions : handleMusicPlay(c, t)
    \/ \E c \in Conns : handleMusicPlay_updateMusicInfo(c)

SpecPlay == InitMusic /\ [][NextPlay]_vars

stateOf(info) == IF "state" \in info.keys THEN info.val.state ELSE "none"

\* C40: a room whose stored music state is "playing" has a current song; a
\* music_play frame for a room with no music_info, or with no current song,
\* does not leave the room playing.
C40_PlayingHasSong ==
    \A r \in RoomIds :
        stateOf(music[r]) = "playing" => songOf(music[r]) # NoSong

\* ------------------------------------------------ music sync on attaching
\* the clock steps of a run, and the milliseconds of one
MaxTicks == 2
TickMs == 500

\* a music_info with a song set and not played yet
PausedMusic == [exists |-> TRUE,
                keys |-> {"currentSong", "progress", "state", "queue"},
                val |-> [BlankMusic EXCEPT !.currentSong = "A"]]

\* c1 and c2 attached; c3, whose user may be a ghost of the room, has not
\* connected; the room has no music_info, a paused or a playing one
InitJoin ==
    /\ backend = "supabase"
    /\ room = [r \in RoomIds |-> GroupRoom]
    /\ ghosts \in [RoomIds -> {{}, {"u3"}}]
    /\ participants = [r \in RoomIds |-> {"u1", "u2"} \cup ghosts[r]]
    /\ bannedUsers = {}
    /\ bannedIps = {}
    /\ messages = [r \in RoomIds |-> <<>>]
    /\ rooms = [r \in RoomIds |->
                   [u \in Users |-> {c \in {"c1", "c2"} : UserOf(c) = u}]]
    /\ socketToInfo = {"c1", "c2"}
    /\ sock = [c \in Conns |-> IF c = "c3" THEN NewSock ELSE Attached(UserOf(c))]
    /\ ftask = [c \in Conns |-> NoFrameTask]
    /\ dtask = [c \in Conns |-> NoTasks]
    /\ adminTask = [r \in RoomIds |-> "none"]
    /\ requests = 0
    /\ sends = 0
    /\ storeTask = "none"
    /\ pipe = [c \in Conns |-> <<>>]
    /\ limiter = [u \in Users |-> 0]
    /\ admitted = [u \in Users |-> 0]
    /\ arrival = NoSocket
    /\ music \in [RoomIds -> {NoMusic, PausedMusic, StoredMusic}]
    /\ mtask = [c \in Conns |-> NoMusicTask]
    /\ now = StartTime
    /\ htask = [c \in Conns |-> NoHistoryTask]
    /\ unhandled = {}
    /\ theme = [r \in RoomIds |-> NoTheme]
    /\ ttask = [c \in Conns |-> NoThemeTask]
    /\ sent = <<>>

\* time passes
Tick ==
    /\ now < StartTime + MaxTicks * TickMs
    /\ now' = now + TickMs
    /\ sent' = <<>>
    /\ UNCHANGED <<storeVars, registryVars, sock, ftask, dtask, adminTask, backend,
                   requests, sends, storeTask, listenerRunVars, historyRunVars,
                   themeRunVars, music, mtask>>

\* Date.now() - (existingMusicInfo.playTime || 0), in milliseconds
elapsedTime_none(existingMusicInfo) == 0
elapsedTime(existingMusicInfo) ==
    now - (IF "playTime" \in existingMusicInfo.keys
           THEN existingMusicInfo.val.playTime ELSE 0)

\* existingMusicInfo.progress + elapsedTime / 1000, kept in milliseconds
currentTime(existingMusicInfo) ==
    existingMusicInfo.val.progress * 1000 + elapsedTime(existingMusicInfo)

\* the user is registered and getMusicInfo returns: music_sync, and
\* music_play when the stored state is playing, go to this socket
handleUserConnected_getMusicInfo(c) ==
    /\ sock[c].pc = "announce"
    /\ mtask[c].pc = "none"
    /\ LET existingMusicInfo == getMusicInfo(sock[c].chatId)
       IN sent' = IF existingMusicInfo.exists
                  THEN Packets({c}, "music_sync", existingMusicInfo, NoBody)
                       \o (IF existingMusicInfo.val.state = "playing"
                           THEN Packets({c}, "music_play",
                                        currentTime(existingMusicInfo), NoBody)
                           ELSE <<>>)
                  ELSE <<>>
    /\ mtask' = [mtask EXCEPT ![c].pc = "synced"]
    /\ UNCHANGED <<musicFrame, music, requests>>

NextJoin ==
    \/ Tick
    \/ \E c \in Leavers : onConnection(c, "r", UserOf(c), TRUE)
    \/ \E c \in Leavers : handleUserConnected_isUserBanned(c)
    \/ \E c \in Leavers : handleUserConnected_isGhostMode(c, TRUE)
    \/ \E c \in Leavers : handleUserConnected_containsParticipant(c)
    \/ \E c \in Leavers : handleUserConnected_addParticipant(c)
    \/ \E c \in Leavers : handleUserConnected_getMusicInfo(c)
    \/ \E c \in Leavers : mtask[c].pc = "synced" /\ handleUserConnected_getNickname(c)
    \/ \E c \in Conns, t \in Positions : handleMusicPlay(c, t)
    \/ \E c \in Conns : handleMusicPlay_updateMusicInfo(c)
    \/ \E c \in Conns, song \in Songs : handleMusicSet_getMusicInfo(c, song)
    \/ \E c \in Conns : handleMusicSet_updateMusicInfo(c)

SpecJoin == InitJoin /\ [][NextJoin]_vars

\* the step in which the attaching socket c is sent the room's music state
Syncs(c) == mtask[c].pc = "none" /\ mtask'[c].pc = "synced"

\* C31: on attaching to a room that has a music_info, the attaching socket,
\* and no other, is sent exactly one music_sync with the stored state; if the
\* stored state is playing, one music_play follows, to that socket only, whose
\* currentTime is the stored progress plus the time since playTime; with no
\* music_info neither packet is sent.  No other step sends a music_sync.
C31_SyncOnAttach ==
    [][/\ \A c \in Conns : Syncs(c) =>
             LET info == music[sock[c].chatId]
                 drift == now - (IF "playTime" \in info.keys
                                 THEN info.val.playTime ELSE 0)
                 sync == [to |-> {c}, type |-> "music_sync", about |-> info,
                          body |-> NoBody]
                 play == [to |-> {c}, type |-> "music_play",
                          about |-> info.val.progress * 1000 + drift,
                          body |-> NoBody]
             IN sent' = IF ~info.exists THEN <<>>
                        ELSE IF info.val.state = "playing" THEN <<sync, play>>
                        ELSE <<sync>>
       /\ (\A c \in Conns : ~Syncs(c)) => PacketsOf(sent', "music_sync") = {}]_vars

C31_Witness ==
    /\ mtask["c3"].pc = "synced"
    /\ sock["c3"].pc = "announce"
    /\ Len(sent) = 2
    /\ sent[1].type = "music_sync" /\ sent[1].to = {"c3"}
    /\ sent[2].type = "music_play" /\ sent[2].to = {"c3"}
    /\ sent[1].about.val.playTime > StartTime
    /\ sent[2].about = 3000 + TickMs

\* -------------------------------------------------- capacity under races
\* C32: the users online in a room that are not ghosts are never more than
\* the room's max_participants: of two attempts by new users that begin
\* with one place free, at most one is admitted.
C32_NeverOverCapacity ==
    \A r \in RoomIds :
        room[r].exists =>
           Cardinality(getOnlineUsersInRoom(rooms[r]) \ ghosts[r])
              <= maxParticipantsOf(getRoomInfo(r, TRUE))

\* ------------------------------------------- the registry and the rooms
\* C35: every socket held in the presence registry is of a room that exists
\* in the store: no room is deleted while an attempt that has passed the
\* existence test goes on to be registered.
C35_RegisteredRoomExists ==
    \A r \in RoomIds :
        getSocketsInRoom(rooms[r]) # {} => roomExists(r)

\* ------------------------------------------- leaving during the admission
\* the peer closes the connection before onConnection has registered the
\* close listener: 'close' is emitted with nobody listening
PeerClosesUnheard(c) ==
    /\ sock[c].state = "OPEN"
    /\ ~Listening(c)
    /\ sock' = [sock EXCEPT ![c].state = "CLOSED"]
    /\ sent' = <<>>
    /\ UNCHANGED <<storeVars, registryVars, ftask, dtask, adminTask, requests,
                   storeRunVars>>

\* getMusicInfo or getNickname rejects after userStore.addUserToRoom:
\* onConnection catches the error and returns, registering no listener
handleUserConnected_rejects(c) ==
    /\ sock[c].pc = "announce"
    /\ sock' = [sock EXCEPT ![c].pc = "failed"]
    /\ sent' = <<>>
    /\ UNCHANGED <<storeVars, registryVars, ftask, dtask, adminTask, requests,
                   storeRunVars>>

\* the continuations the event loop runs once the awaited call has returned
handleUserConnected_continues ==
    \/ \E c \in Leavers : handleUserConnected_isUserBanned(c)
    \/ \E c \in Leavers : handleUserConnected_isGhostMode(c, TRUE)
    \/ \E c \in Leavers : handleUserConnected_containsParticipant(c)
    \/ \E c \in Leavers : handleUserConnected_addParticipant(c)
    \/ \E c \in Leavers : handleUserConnected_getNickname(c)

\* (the room of this run is a group room, which handleDisconnect keeps)
handleDisconnect_continues ==
    \E c \in Conns : handleDisconnect_getRoomInfo(c, "close", TRUE)

NextLeave ==
    \/ \E c \in Leavers : onConnection(c, "r", UserOf(c), TRUE)
    \/ handleUserConnected_continues
    \/ \E c \in Leavers : handleUserConnected_rejects(c)
    \/ \E c \in Leavers : PeerClosesUnheard(c)
    \/ \E c \in Conns : ClientClose(c)
    \/ handleDisconnect_continues
    \/ \E c \in Conns, content \in Themes : handleChangeTheme_setTheme(c, content)
    \/ \E c \in Conns : handleChangeTheme_broadcast(c)

\* every continuation whose awaited call has returned is run
SpecLeave ==
    /\ InitTheme
    /\ [][NextLeave]_vars
    /\ WF_vars(handleUserConnected_continues)
    /\ WF_vars(handleDisconnect_continues)

\* C33: a connection that is closed is, from some moment on, in the presence
\* registry no more, also when it closed, or its setup failed after it was
\* registered, while its admission was under way.
C33_ClosedLeavesRegistry ==
    \A c \in Conns : [](sock[c].state = "CLOSED" => <>[](~Registered(c)))

\* ------------------------------------------ writes to one stored message
\* the entries of a list that carry the id
EntriesOf(list, id) == {i \in 1..Len(list) : list[i].id = id}

\* the step in which a reaction or a delete for message id is written
Touches(id) ==
    \/ DeleteApplied(id)
    \/ \E c \in Conns : /\ htask[c].pc \in {"reaction_write", "delete_write"}
                        /\ htask'[c].pc = "none"
                        /\ htask[c].id = id

\* C34: a reaction or a delete on message m, with sends going on beside it,
\* changes the stored entry of m alone: every other retained message is
\* stored unchanged and exactly once afterwards, and m is stored at most once.
C34_OnlyTheTargetChanges ==
    [][\A id \in TargetIds :
          (/\ Touches(id)
           /\ \A i \in 1..Len(History) : Cardinality(EntriesOf(History, History[i].id)) = 1) =>
             /\ Cardinality(EntriesOf(History', id)) <= 1
             /\ \A i \in 1..Len(History) :
                   History[i].id # id =>
                      /\ Cardinality(EntriesOf(History', History[i].id)) = 1
                      /\ \E j \in 1..Len(History') : History'[j] = History[i]]_vars

\* ------------------------------------------------- two theme changes at once
\* c1 and c2 send change_theme frames; c3, once attached, only listens
NextThemeRace ==
    \/ \E c \in Senders, content \in Themes : handleChangeTheme_setTheme(c, content)
    \/ \E c \in Senders : handleChangeTheme_broadcast(c)
    \/ \E c \in Leavers : onConnection(c, "r", UserOf(c), TRUE)
    \/ \E c \in Leavers : handleUserConnected_isUserBanned(c)
    \/ \E c \in Leavers : handleUserConnected_isGhostMode(c, TRUE)
    \/ \E c \in Leavers : handleUserConnected_containsParticipant(c)
    \/ \E c \in Leavers : handleUserConnected_addParticipant(c)
    \/ \E c \in Leavers : handleUserConnected_getNickname(c)

SpecThemeRace == InitTheme /\ [][NextThemeRace]_vars

\* C38: when change_theme frames of two sockets are handled side by side, the
\* theme of the last theme_change a bystander receives is the theme the store
\* holds once both are done.
C38_LastBroadcastIsStored ==
    [][\A c \in Senders :
          (/\ ThemeBroadcast(c)
           /\ \A d \in Conns \ {c} : ttask[d].pc = "none"
           /\ \E i \in PacketsOf(sent', "theme_change") :
                 sent'[i].to \ Senders # {}) =>
             theme'[sock[c].chatId] = ttask[c].content]_vars

\* ------------------------------------------------- the sender of a message
\* the message frames of this run: the client gives the id, the type, the
\* sender and a senderNickname
SenderFrames ==
    [id : {"m1", "m2"}, type : {"text", "system"}, sender : Users \cup {"system"}]

\* the three users attached to a room with no messages
InitSender ==
    /\ backend \in Backends
    /\ room = [r \in RoomIds |-> GroupRoom]
    /\ participants = [r \in RoomIds |-> Users]
    /\ ghosts = [r \in RoomIds |-> {}]
    /\ bannedUsers = {}
    /\ bannedIps = {}
    /\ messages = [r \in RoomIds |-> <<>>]
    /\ rooms = [r \in RoomIds |-> [u \in Users |-> {c \in Conns : UserOf(c) = u}]]
    /\ socketToInfo = Conns
    /\ sock = [c \in Conns |-> Attached(UserOf(c))]
    /\ ftask = [c \in Conns |-> NoFrameTask]
    /\ dtask = [c \in Conns |-> NoTasks]
    /\ adminTask = [r \in RoomIds |-> "none"]
    /\ requests = 0
    /\ sends = 0
    /\ storeTask = "none"
    /\ pipe = [c \in Conns |-> <<>>]
    /\ limiter = [u \in Users |-> 0]
    /\ admitted = [u \in Users |-> 0]
    /\ arrival = NoSocket
    /\ music = [r \in RoomIds |-> NoMusic]
    /\ mtask = [c \in Conns |-> NoMusicTask]
    /\ now = StartTime
    /\ htask = [c \in Conns |-> NoHistoryTask]
    /\ unhandled = {}
    /\ theme = [r \in RoomIds |-> NoTheme]
    /\ ttask = [c \in Conns |-> NoThemeTask]
    /\ sent = <<>>

\* let newMessage = { ...message, content, senderNickname }: the fields of
\* the frame, the sender among them
newMessage(message) ==
    [id |-> message.id, type |-> message.type, content |-> "hi",
     reactions |-> <<>>, sender |-> message.sender]

\* what addMessage stores: the JSON of newMessage (redis), or a row with
\* user_id: message.sender (supabase)
storedSender(message) == message.sender

\* a message frame carrying a senderNickname: addMessage, then the
\* acknowledgment and the message packet, content newMessage and sender
\* ws.userId, to the rest of the room
handleSendMessage_newMessage(c, message) ==
    /\ HistoryFrameArrives(c)
    /\ LET row == [newMessage(message) EXCEPT !.sender = storedSender(message)]
       IN messages' = [messages EXCEPT ![sock[c].chatId] =
                          IF backend = "redis"
                          THEN ltrim(lpush(@, row), LTRIM_STOP)
                          ELSE supabaseAddMessage(@, sock[c].chatId, row)]
    /\ sent' = Packets({c}, "message_acknowledgment", message.id, NoBody)
               \o Packets(broadcastToRoom(rooms[sock[c].chatId], c), "message",
                          sock[c].userId, newMessage(message))
    /\ UNCHANGED <<historyFrame, htask>>

NextSender ==
    \E c \in Conns, message \in SenderFrames : handleSendMessage_newMessage(c, message)

SpecSender == InitSender /\ [][NextSender]_vars

\* the step in which the message frame of c is stored and sent on
MessageServed(c) ==
    \E i \in PacketsOf(sent', "message_acknowledgment") : sent'[i].to = {c}

\* C39: every message stored or sent on from a message frame has as sender
\* the user id of the socket the frame came on: no frame yields a message
\* of "system" or of another user.
C39_SenderIsTheSocketsUser ==
    [][\A c \in Conns :
          MessageServed(c) =>
             /\ \A i \in 1..Len(History') :
                   (\A j \in 1..Len(History) : History[j] # History'[i]) =>
                      History'[i].sender = sock[c].userId
             /\ \A i \in PacketsOf(sent', "message") :
                   /\ sent'[i].about = sock[c].userId
                   /\ sent'[i].body.sender = sock[c].userId]_vars

====
